---- MODULE Spec2Model ----
(***************************************************************************)
(* Session lifecycle and scheduling of the peer-tutoring backend           *)
(* (routes/sessions: book, reschedule, cancel, start, end) over the        *)
(* Session collection.                                                     *)
(*                                                                         *)
(* Time is an integer number of minutes since Monday 2025-01-06T00:00 UTC. *)
(* Every request is a process; a step of a process runs the handler up to  *)
(* its next awaited database operation, so the database reads and writes   *)
(* of concurrent requests interleave exactly at the handler's awaits.      *)
(* A Mongoose document read by findById is a local snapshot (doc); the     *)
(* handler assigns to a local copy (newdoc) and save() writes the paths    *)
(* whose value differs from the snapshot, nothing else.                    *)
(* sweep is the run of the reminder cron job; outbox holds every call of   *)
(* the reminder helper and every failure a notification helper caught and  *)
(* logged.                                                                 *)
(***************************************************************************)
EXTENDS Integers, Sequences, FiniteSets, TLC

VARIABLES sessions, now, req, response, stats, sweep, outbox

vars == <<sessions, now, req, response, stats, sweep, outbox>>

----------------------------------------------------------------------------
(* Bounds of the model *)

MaxSessions == 2

Procs == {"p1", "p2"}

(* Program constants *)

MinutesPerHour == 60
HoursPerDay == 24
DaysPerWeek == 7
StartEarlyMinutes == 15
LateCancelHours == 24
DefaultPage == 1
DefaultLimit == 20

MinutesPerDay == HoursPerDay * MinutesPerHour
MinutesPerWeek == DaysPerWeek * MinutesPerDay

NoTime == -1
NoId == 0
\* a meeting link that the body of a request carries in location
GivenLink == 99
NoUser == "nobody"

----------------------------------------------------------------------------
(* User directory (models/User.js): role and weekly availability.  The    *)
(* directory is not changed by any session operation except the stats.    *)

Users == {"u1", "u2", "u3"}

Role(u) ==
  CASE u = "u1" -> "student"
    [] u = "u2" -> "both"
    [] u = "u3" -> "tutor"
    [] OTHER -> "student"

DayNames == <<"monday", "tuesday", "wednesday", "thursday", "friday",
              "saturday", "sunday">>

\* availability slots: day name, startTime and endTime as minutes of the day
\* ("HH:mm" strings of equal width compare as these numbers do)
Availability(u) ==
  CASE u = "u2" -> {[day |-> "tuesday", startTime |-> 540, endTime |-> 720],
                    [day |-> "monday", startTime |-> 600, endTime |-> 660],
                    [day |-> "friday", startTime |-> 600, endTime |-> 660]}
    [] u = "u3" -> {[day |-> "tuesday", startTime |-> 540, endTime |-> 720],
                    [day |-> "wednesday", startTime |-> 600, endTime |-> 660]}
    [] OTHER -> {}

----------------------------------------------------------------------------
(* Calendar arithmetic of moment(): day of week, HH:mm, add(1, "month")   *)

IsLeap(y) == (y % 4 = 0 /\ y % 100 # 0) \/ y % 400 = 0

DaysInMonth(y, m) ==
  IF m = 2 THEN (IF IsLeap(y) THEN 29 ELSE 28)
  ELSE IF m \in {4, 6, 9, 11} THEN 30 ELSE 31

\* the civil date <<y, m, d>> reached from <<y, m, 1>> plus (d - 1) days
RECURSIVE NormDate(_, _, _)
NormDate(y, m, d) ==
  IF d <= DaysInMonth(y, m) THEN <<y, m, d>>
  ELSE IF m = 12 THEN NormDate(y + 1, 1, d - DaysInMonth(y, m))
  ELSE NormDate(y, m + 1, d - DaysInMonth(y, m))

\* day 0 is 2025-01-06
CivilOfDay(n) == NormDate(2025, 1, 6 + n)

RECURSIVE DaysBefore(_, _)
\* days from 2025-01-01 to the first of month m of year y
DaysBefore(y, m) ==
  IF y = 2025 /\ m = 1 THEN 0
  ELSE IF m = 1 THEN DaysBefore(y - 1, 12) + DaysInMonth(y - 1, 12)
  ELSE DaysBefore(y, m - 1) + DaysInMonth(y, m - 1)

DayOfCivil(y, m, d) == DaysBefore(y, m) + d - 6

DayOfWeek(t) == DayNames[((t \div MinutesPerDay) % 7) + 1]

TimeOfDay(t) == t % MinutesPerDay

\* moment.add(1, "month"): same day of the next month, clamped to its length
AddMonth(t) ==
  LET c == CivilOfDay(t \div MinutesPerDay)
      y2 == IF c[2] = 12 THEN c[1] + 1 ELSE c[1]
      m2 == IF c[2] = 12 THEN 1 ELSE c[2] + 1
      d2 == IF c[3] > DaysInMonth(y2, m2) THEN DaysInMonth(y2, m2) ELSE c[3]
  IN DayOfCivil(y2, m2, d2) * MinutesPerDay + TimeOfDay(t)

Frequencies == {"weekly", "biweekly", "monthly"}

\* the switch of createRecurringSessions: one advance of currentDate
AdvanceDate(t, frequency) ==
  CASE frequency = "weekly" -> t + MinutesPerWeek
    [] frequency = "biweekly" -> t + 2 * MinutesPerWeek
    [] frequency = "monthly" -> AddMonth(t)
    [] OTHER -> t

----------------------------------------------------------------------------
(* The Session document (models/Session.js), nested paths flattened.      *)

Statuses == {"scheduled", "confirmed", "ongoing", "completed", "cancelled",
             "no-show"}

ActiveStatuses == {"scheduled", "confirmed", "ongoing"}

Types == {"online", "offline"}

\* new Session(data): the schema defaults for every path not given
NewSession(student, tutor, subject, start, end, type, isRecurring, frequency, endDate, parentSession) ==
  [ student |-> student, tutor |-> tutor, subject |-> subject,
    scheduledStart |-> start, scheduledEnd |-> end,
    actualStart |-> NoTime, actualEnd |-> NoTime,
    status |-> "scheduled", type |-> type, meetingLink |-> NoId,
    notesStudent |-> "", notesTutor |-> "", notesAdmin |-> <<>>,
    remindersSent |-> FALSE, remindersSentAt |-> NoTime,
    isRecurring |-> isRecurring, frequency |-> frequency,
    endDate |-> endDate, parentSession |-> parentSession,
    cancelledBy |-> NoUser, cancelledAt |-> NoTime, reason |-> "" ]

NoDoc == NewSession(NoUser, NoUser, "", NoTime, NoTime, "online", FALSE, "",
                    NoTime, NoId)

SessionIds == 1..Len(sessions)

\* document.save() of a document read earlier: $set of the modified paths,
\* the paths whose local value differs from the snapshot that was read
SaveModified(stored, doc, newdoc) ==
  [f \in DOMAIN stored |-> IF newdoc[f] # doc[f] THEN newdoc[f] ELSE stored[f]]

----------------------------------------------------------------------------
(* Helpers of routes/sessions                                              *)

\* the query with closed windows [start, end], under which a session that
\* ends when another starts would count as a conflict
checkSchedulingConflictsClosed(studentId, tutorId, start, end, excludeSessionId) ==
  { i \in SessionIds :
      /\ (sessions[i].student = studentId \/ sessions[i].tutor = tutorId)
      /\ sessions[i].status \in {"scheduled", "confirmed", "ongoing"}
      /\ sessions[i].scheduledStart <= end
      /\ sessions[i].scheduledEnd >= start
      /\ (excludeSessionId # NoId => i # excludeSessionId) }

\* the sessions that conflict with the window [start, end) of the pair
checkSchedulingConflicts(studentId, tutorId, start, end, excludeSessionId) ==
  { i \in SessionIds :
      /\ (sessions[i].student = studentId \/ sessions[i].tutor = tutorId)
      /\ sessions[i].status \in {"scheduled", "confirmed", "ongoing"}
      /\ sessions[i].scheduledStart < end
      /\ sessions[i].scheduledEnd > start
      /\ (excludeSessionId # NoId => i # excludeSessionId) }

checkTutorAvailability(tutorId, start, end) ==
  \E slot \in Availability(tutorId) :
      /\ slot.day = DayOfWeek(start)
      /\ slot.startTime <= TimeOfDay(start)
      /\ slot.endTime >= TimeOfDay(end)

generateMeetingLink(id) == id

\* toFixed(1) of the hours until the session, in tenths of an hour
RoundDiv(a, b) == IF a >= 0 THEN (2 * a + b) \div (2 * b)
                  ELSE -((2 * (-a) + b) \div (2 * b))

LateNote(minutesUntil) == <<"Late cancellation", RoundDiv(minutesUntil * 10, MinutesPerHour)>>

----------------------------------------------------------------------------
(* Request processes                                                       *)

\* the locals of a handler; pc names the awaited operation it is stopped at
Idle ==
  [ op |-> "idle", pc |-> "idle", caller |-> NoUser, sid |-> NoId,
    tutor |-> NoUser, start |-> NoTime, end |-> NoTime, type |-> "online",
    isRecurring |-> FALSE, frequency |-> "", endDate |-> NoTime,
    reason |-> "", notes |-> "", doc |-> NoDoc, newdoc |-> NoDoc,
    created |-> <<>>, currentDate |-> NoTime, linkIdx |-> 0,
    status |-> "", role |-> "", page |-> DefaultPage, limit |-> DefaultLimit,
    listed |-> <<>>, meetingLink |-> NoId ]

NoResponse == [op |-> "idle", result |-> "", conflicts |-> {}, duration |-> NoTime]

Free(p) == req[p].pc = "idle"

\* res.json(...): the handler ends and its answer is the last response sent
Respond(p, op, result, conflicts, duration) ==
  /\ req' = [req EXCEPT ![p] = Idle]
  /\ response' = [op |-> op, result |-> result, conflicts |-> conflicts,
                  duration |-> duration]

\* the handler stops at its next await with locals r
Await(p, r) ==
  /\ req' = [req EXCEPT ![p] = r]
  /\ UNCHANGED response

\* the most sessions the store is let grow to while a loop keeps inserting
StoreRoom == MaxSessions + 1

\* number of sessions a recurring request creates, the parent included; a
\* loop that does not advance creates the parent, an occurrence, and then
\* as many more as the store has room for
RECURSIVE SeriesSize(_, _, _)
SeriesSize(currentDate, frequency, endDate) ==
  IF currentDate < endDate /\ AdvanceDate(currentDate, frequency) < endDate
  THEN IF AdvanceDate(currentDate, frequency) = currentDate THEN 2
       ELSE 1 + SeriesSize(AdvanceDate(currentDate, frequency), frequency,
                           endDate)
  ELSE 1

\* sessions that a request in flight is still going to insert
Needs(r) ==
  IF r.op = "book" /\ r.pc \in {"save", "recur"}
  THEN (IF r.isRecurring
        THEN SeriesSize(r.start, r.frequency, r.endDate) ELSE 1) - Len(r.created)
  ELSE 0

RECURSIVE SumNeeds(_)
SumNeeds(ps) ==
  IF ps = {} THEN 0
  ELSE LET p == CHOOSE q \in ps : TRUE IN Needs(req[p]) + SumNeeds(ps \ {p})

\* a run of the cron job that has not started or is over
RunIdle == [pc |-> "idle", selected |-> <<>>, idx |-> 0]

\* the cron job is not running; late is the run that a tick of the schedule
\* starts while the run before it is still in flight
SweepIdle == [pc |-> "idle", selected |-> <<>>, idx |-> 0, late |-> RunIdle]

\* calls of the helper of this kind made so far for session sid
Attempts(kind, sid) ==
  Cardinality({ m \in outbox : m.kind = kind /\ m.sid = sid })

\* the n-th call of a notification helper for session sid, delivered or
\* failed (its sendEmail throws, which the helper catches and logs)
Notify(kind, sid, n, ok) ==
  outbox' = outbox \cup {[kind |-> kind, sid |-> sid, n |-> n, ok |-> ok]}

\* a mail of a request: only its failure leaves a trace
Mailed(kind, sid, ok) ==
  IF ok THEN UNCHANGED outbox ELSE Notify(kind, sid, 1, FALSE)

Init ==
  /\ sessions = <<>>
  /\ now = 0
  /\ req = [p \in Procs |-> Idle]
  /\ response = NoResponse
  /\ stats = [u \in Users |-> [totalSessions |-> 0, completedSessions |-> 0,
                               hoursLearning |-> 0, hoursTeaching |-> 0]]
  /\ sweep = SweepIdle
  /\ outbox = {}

----------------------------------------------------------------------------
(* POST /book                                                              *)

\* checks that would let a session start at the very instant of the call
BookVerdictNowAllowed(studentId, tutorId, start, end) ==
  IF start >= end THEN "end-before-start"
  ELSE IF start < now THEN "not-future"
  ELSE IF tutorId \notin Users \/ Role(tutorId) \notin {"tutor", "both"}
    THEN "tutor-not-found"
  ELSE IF checkSchedulingConflicts(studentId, tutorId, start, end, NoId) # {}
    THEN "conflict"
  ELSE IF ~checkTutorAvailability(tutorId, start, end) THEN "unavailable"
  ELSE ""

\* checks that would not look at the tutor's slots
BookVerdictAnySlot(studentId, tutorId, start, end) ==
  IF start >= end THEN "end-before-start"
  ELSE IF start <= now THEN "not-future"
  ELSE IF tutorId \notin Users \/ Role(tutorId) \notin {"tutor", "both"}
    THEN "tutor-not-found"
  ELSE IF checkSchedulingConflicts(studentId, tutorId, start, end, NoId) # {}
    THEN "conflict"
  ELSE ""

\* the answer of the handler before any insert, "" when it goes on to insert
BookVerdict(studentId, tutorId, start, end) ==
  IF start >= end THEN "end-before-start"
  ELSE IF start <= now THEN "not-future"
  ELSE IF tutorId \notin Users \/ Role(tutorId) \notin {"tutor", "both"}
    THEN "tutor-not-found"
  ELSE IF checkSchedulingConflicts(studentId, tutorId, start, end, NoId) # {}
    THEN "conflict"
  ELSE IF ~checkTutorAvailability(tutorId, start, end) THEN "unavailable"
  ELSE ""

\* the handler for a body whose location carries meetingLink (NoId: none)
BookRequestLocated(p, cap, caller, tutor, start, end, type, isRecurring, frequency, endDate, meetingLink) ==
  LET r == [Idle EXCEPT !.op = "book", !.pc = "save", !.caller = caller,
                        !.tutor = tutor, !.start = start, !.end = end,
                        !.type = type, !.isRecurring = isRecurring,
                        !.frequency = frequency, !.endDate = endDate,
                        !.meetingLink = meetingLink]
      verdict == BookVerdict(caller, tutor, start, end)
  IN /\ Free(p)
     /\ IF verdict = "conflict"
        THEN Respond(p, "book", verdict,
                     checkSchedulingConflicts(caller, tutor, start, end, NoId),
                     NoTime)
        ELSE IF verdict # "" THEN Respond(p, "book", verdict, {}, NoTime)
        ELSE /\ Needs(r) <= cap - Len(sessions) - SumNeeds(Procs \ {p})
             /\ Await(p, r)
     /\ UNCHANGED <<sessions, now, stats, sweep, outbox>>

\* the handler for a body without a meeting link
BookRequest(p, cap, caller, tutor, start, end, type, isRecurring, frequency, endDate) ==
  BookRequestLocated(p, cap, caller, tutor, start, end, type, isRecurring, frequency, endDate, NoId)

\* after the inserts: the meeting links of an online booking, or the mails
AfterInserts(r) ==
  IF r.type = "online" THEN [r EXCEPT !.pc = "link", !.linkIdx = 1]
  ELSE [r EXCEPT !.pc = "notify"]

\* an insert that would look for conflicts once more, atomically with the
\* write, and refuse when another booking got in first
BookSaveChecked(p) ==
  LET r == req[p]
      id == Len(sessions) + 1
      s == [NewSession(r.caller, r.tutor, "math", r.start, r.end, r.type,
                       r.isRecurring,
                       IF r.isRecurring THEN r.frequency ELSE "",
                       IF r.isRecurring THEN r.endDate ELSE NoTime, NoId)
              EXCEPT !.meetingLink = r.meetingLink]
      r2 == [r EXCEPT !.created = <<id>>, !.currentDate = r.start]
      conflicts == checkSchedulingConflicts(r.caller, r.tutor, r.start, r.end,
                                            NoId)
  IN /\ r.op = "book" /\ r.pc = "save"
     /\ IF conflicts # {}
        THEN Respond(p, "book", "conflict", conflicts, NoTime)
             /\ UNCHANGED sessions
        ELSE /\ sessions' = Append(sessions, s)
             /\ Await(p, IF r.isRecurring THEN [r2 EXCEPT !.pc = "recur"]
                         ELSE AfterInserts(r2))
     /\ UNCHANGED <<now, stats, sweep, outbox>>

\* session.save() of the single session, or parentSession.save()
BookSave(p) ==
  LET r == req[p]
      id == Len(sessions) + 1
      s == [NewSession(r.caller, r.tutor, "math", r.start, r.end, r.type,
                       r.isRecurring,
                       IF r.isRecurring THEN r.frequency ELSE "",
                       IF r.isRecurring THEN r.endDate ELSE NoTime, NoId)
              EXCEPT !.meetingLink = r.meetingLink]
      r2 == [r EXCEPT !.created = <<id>>, !.currentDate = r.start]
  IN /\ r.op = "book" /\ r.pc = "save"
     /\ sessions' = Append(sessions, s)
     /\ Await(p, IF r.isRecurring THEN [r2 EXCEPT !.pc = "recur"]
                 ELSE AfterInserts(r2))
     /\ UNCHANGED <<now, stats, sweep, outbox>>

\* a loop whose occurrences would carry no reference to the parent
BookRecurUnlinked(p) ==
  LET r == req[p]
      id == Len(sessions) + 1
      next == AdvanceDate(r.currentDate, r.frequency)
      s == [NewSession(r.caller, r.tutor, "math", next,
                       next + (r.end - r.start), r.type, TRUE, r.frequency,
                       r.endDate, NoId)
              EXCEPT !.meetingLink = r.meetingLink]
  IN /\ r.op = "book" /\ r.pc = "recur"
     /\ IF ~(r.currentDate < r.endDate)
        THEN Await(p, AfterInserts(r)) /\ UNCHANGED sessions
        ELSE IF next < r.endDate
        THEN /\ Len(sessions) < StoreRoom
             /\ sessions' = Append(sessions, s)
             /\ Await(p, [r EXCEPT !.currentDate = next,
                                   !.created = Append(@, id)])
        ELSE Await(p, [r EXCEPT !.currentDate = next]) /\ UNCHANGED sessions
     /\ UNCHANGED <<now, stats, sweep, outbox>>

\* a loop that would also create the occurrence starting exactly at endDate
BookRecurInclusive(p) ==
  LET r == req[p]
      id == Len(sessions) + 1
      next == AdvanceDate(r.currentDate, r.frequency)
      s == [NewSession(r.caller, r.tutor, "math", next,
                       next + (r.end - r.start), r.type, TRUE, r.frequency,
                       r.endDate, r.created[1])
              EXCEPT !.meetingLink = r.meetingLink]
  IN /\ r.op = "book" /\ r.pc = "recur"
     /\ IF ~(r.currentDate < r.endDate)
        THEN Await(p, AfterInserts(r)) /\ UNCHANGED sessions
        ELSE IF next <= r.endDate
        THEN /\ Len(sessions) < StoreRoom
             /\ sessions' = Append(sessions, s)
             /\ Await(p, [r EXCEPT !.currentDate = next,
                                   !.created = Append(@, id)])
        ELSE Await(p, [r EXCEPT !.currentDate = next]) /\ UNCHANGED sessions
     /\ UNCHANGED <<now, stats, sweep, outbox>>

\* one turn of the while loop of createRecurringSessions
BookRecur(p) ==
  LET r == req[p]
      id == Len(sessions) + 1
      next == AdvanceDate(r.currentDate, r.frequency)
      s == [NewSession(r.caller, r.tutor, "math", next,
                       next + (r.end - r.start), r.type, TRUE, r.frequency,
                       r.endDate, r.created[1])
              EXCEPT !.meetingLink = r.meetingLink]
  IN /\ r.op = "book" /\ r.pc = "recur"
     /\ IF ~(r.currentDate < r.endDate)
        THEN Await(p, AfterInserts(r)) /\ UNCHANGED sessions
        ELSE IF next < r.endDate
        THEN /\ Len(sessions) < StoreRoom
             /\ sessions' = Append(sessions, s)
             /\ Await(p, [r EXCEPT !.currentDate = next,
                                   !.created = Append(@, id)])
        ELSE Await(p, [r EXCEPT !.currentDate = next]) /\ UNCHANGED sessions
     /\ UNCHANGED <<now, stats, sweep, outbox>>

\* session.location.meetingLink = ...; session.save(), for each created session
BookLink(p) ==
  LET r == req[p]
  IN /\ r.op = "book" /\ r.pc = "link"
     /\ IF r.linkIdx <= Len(r.created)
        THEN /\ sessions' = [sessions EXCEPT ![r.created[r.linkIdx]].meetingLink =
                                generateMeetingLink(r.created[r.linkIdx])]
             /\ Await(p, [r EXCEPT !.linkIdx = @ + 1])
        ELSE Await(p, [r EXCEPT !.pc = "notify"]) /\ UNCHANGED sessions
     /\ UNCHANGED <<now, stats, sweep, outbox>>

\* a booking whose notification failure would reach the handler's catch
BookNotifiedOrFailed(p, ok) ==
  /\ req[p].op = "book" /\ req[p].pc = "notify"
  /\ Mailed("booking", req[p].created[1], ok)
  /\ IF ok THEN Respond(p, "book", "created", {}, NoTime)
     ELSE Respond(p, "book", "server-error", {}, NoTime)
  /\ UNCHANGED <<sessions, now, stats, sweep>>

\* sendBookingNotifications, addToCalendars (failures are caught), 201
BookNotified(p, ok) ==
  /\ req[p].op = "book" /\ req[p].pc = "notify"
  /\ Mailed("booking", req[p].created[1], ok)
  /\ Respond(p, "book", "created", {}, NoTime)
  /\ UNCHANGED <<sessions, now, stats, sweep>>

BookRespond(p) == BookNotified(p, TRUE)

BookRespondUnsent(p) == BookNotified(p, FALSE)

----------------------------------------------------------------------------
(* GET /my-sessions                                                        *)

\* a query that would only look at the student side when no role is given
ListQueryStudentSide(userId, status, role) ==
  { i \in SessionIds :
      /\ IF role = "tutor" THEN sessions[i].tutor = userId
         ELSE sessions[i].student = userId
      /\ (status # "" => sessions[i].status = status) }

\* the filter built from the query string; "" is a parameter not given
ListQuery(userId, status, role) ==
  { i \in SessionIds :
      /\ IF role = "student" THEN sessions[i].student = userId
         ELSE IF role = "tutor" THEN sessions[i].tutor = userId
         ELSE sessions[i].student = userId \/ sessions[i].tutor = userId
      /\ (status # "" => sessions[i].status = status) }

\* sort({scheduledStart: -1}): the orders of S with the latest start first;
\* sessions with the same start come in any order
SortedByStartDesc(S) ==
  { q \in [1..Cardinality(S) -> S] :
      /\ \A i, j \in DOMAIN q : i # j => q[i] # q[j]
      /\ \A i, j \in DOMAIN q :
           i < j => sessions[q[i]].scheduledStart >= sessions[q[j]].scheduledStart }

\* skip((page - 1) * limit).limit(limit)
PageOf(q, page, limit) ==
  LET skip == (page - 1) * limit
      last == IF skip + limit < Len(q) THEN skip + limit ELSE Len(q)
  IN SubSeq(q, skip + 1, last)

\* Session.find(query).sort(...).skip(skip).limit(limit)
ListRequest(p, caller, status, role, page, limit) ==
  /\ Free(p)
  /\ \E q \in SortedByStartDesc(ListQuery(caller, status, role)) :
       Await(p, [Idle EXCEPT !.op = "list", !.pc = "count",
                             !.caller = caller, !.status = status,
                             !.role = role, !.page = page, !.limit = limit,
                             !.listed = PageOf(q, page, limit)])
  /\ UNCHANGED <<sessions, now, stats, sweep, outbox>>

\* Session.countDocuments(query), then 200 with the page and the total
ListCount(p) ==
  LET r == req[p]
  IN /\ r.op = "list" /\ r.pc = "count"
     /\ req' = [req EXCEPT ![p] = Idle]
     /\ response' = [op |-> "list", result |-> "ok", conflicts |-> {},
                     duration |-> NoTime, listed |-> r.listed,
                     total |-> Cardinality(ListQuery(r.caller, r.status,
                                                     r.role))]
     /\ UNCHANGED <<sessions, now, stats, sweep, outbox>>

----------------------------------------------------------------------------
(* Guards shared by the handlers of an existing session                    *)

IsParticipant(doc, userId) == doc.student = userId \/ doc.tutor = userId

\* findById, then the 404 and 403 answers; "" when the handler goes on
Access(sid, userId) ==
  IF sid \notin SessionIds THEN "not-found"
  ELSE IF ~IsParticipant(sessions[sid], userId) THEN "forbidden"
  ELSE ""

----------------------------------------------------------------------------
(* PUT /:id/reschedule                                                     *)

RescheduleVerdict(sid, userId, newStart, newEnd) ==
  IF Access(sid, userId) # "" THEN Access(sid, userId)
  ELSE IF sessions[sid].status \notin {"scheduled", "confirmed"}
    THEN "invalid-state"
  ELSE IF newStart >= newEnd THEN "end-before-start"
  ELSE IF newStart <= now THEN "not-future"
  ELSE ""

RescheduleRequest(p, caller, sid, newStart, newEnd) ==
  LET verdict == RescheduleVerdict(sid, caller, newStart, newEnd)
  IN /\ Free(p)
     /\ IF verdict # "" THEN Respond(p, "reschedule", verdict, {}, NoTime)
        ELSE Await(p, [Idle EXCEPT !.op = "reschedule", !.pc = "conflicts",
                                   !.caller = caller, !.sid = sid,
                                   !.start = newStart, !.end = newEnd,
                                   !.doc = sessions[sid]])
     /\ UNCHANGED <<sessions, now, stats, sweep, outbox>>

\* a reschedule that would confirm the session at its new window
RescheduledConfirmed(doc, newStart, newEnd) ==
  [doc EXCEPT !.scheduledStart = newStart, !.scheduledEnd = newEnd,
              !.status = "confirmed"]

\* a reschedule that would move the window and keep the status
RescheduledKeepingStatus(doc, newStart, newEnd) ==
  [doc EXCEPT !.scheduledStart = newStart, !.scheduledEnd = newEnd]

Rescheduled(doc, newStart, newEnd) ==
  [doc EXCEPT !.scheduledStart = newStart, !.scheduledEnd = newEnd,
              !.status = "scheduled"]

RescheduleCheck(p) ==
  LET r == req[p]
      conflicts == checkSchedulingConflicts(r.doc.student, r.doc.tutor,
                                            r.start, r.end, r.sid)
  IN /\ r.op = "reschedule" /\ r.pc = "conflicts"
     /\ IF conflicts # {}
        THEN Respond(p, "reschedule", "conflict", conflicts, NoTime)
        ELSE Await(p, [r EXCEPT !.pc = "save",
                                !.newdoc = Rescheduled(r.doc, r.start, r.end)])
     /\ UNCHANGED <<sessions, now, stats, sweep, outbox>>

RescheduleSave(p) ==
  LET r == req[p]
  IN /\ r.op = "reschedule" /\ r.pc = "save"
     /\ sessions' = [sessions EXCEPT ![r.sid] = SaveModified(@, r.doc, r.newdoc)]
     /\ Await(p, [r EXCEPT !.pc = "notify"])
     /\ UNCHANGED <<now, stats, sweep, outbox>>

\* sendRescheduleNotifications (failures are caught), 200
RescheduleNotified(p, ok) ==
  /\ req[p].op = "reschedule" /\ req[p].pc = "notify"
  /\ Mailed("reschedule", req[p].sid, ok)
  /\ Respond(p, "reschedule", "rescheduled", {}, NoTime)
  /\ UNCHANGED <<sessions, now, stats, sweep>>

RescheduleRespond(p) == RescheduleNotified(p, TRUE)

RescheduleRespondUnsent(p) == RescheduleNotified(p, FALSE)

----------------------------------------------------------------------------
(* PUT /:id/cancel                                                         *)

\* guards that would look at the status before the caller
CancelVerdictStatusFirst(sid, userId, reason) ==
  IF reason = "" THEN "validation"
  ELSE IF sid \notin SessionIds THEN "not-found"
  ELSE IF sessions[sid].status \notin {"scheduled", "confirmed"}
    THEN "invalid-state"
  ELSE IF ~IsParticipant(sessions[sid], userId) THEN "forbidden"
  ELSE ""

CancelVerdict(sid, userId, reason) ==
  IF reason = "" THEN "validation"
  ELSE IF Access(sid, userId) # "" THEN Access(sid, userId)
  ELSE IF sessions[sid].status \notin {"scheduled", "confirmed"}
    THEN "invalid-state"
  ELSE ""

\* a cancellation that would hand the session to the caller as its student
CancelledTakingOver(doc, userId, reason, at) ==
  [doc EXCEPT !.status = "cancelled", !.student = userId,
              !.cancelledAt = at, !.reason = reason]

\* a late note that would also be written at exactly 24 hours
CancelledInclusive(doc, userId, reason, at) ==
  LET minutesUntilSession == doc.scheduledStart - at
      noted == IF minutesUntilSession <= LateCancelHours * MinutesPerHour
               THEN [doc EXCEPT !.notesAdmin = LateNote(minutesUntilSession)]
               ELSE doc
  IN [noted EXCEPT !.status = "cancelled", !.cancelledBy = userId,
                   !.cancelledAt = at, !.reason = reason]

Cancelled(doc, userId, reason, at) ==
  LET minutesUntilSession == doc.scheduledStart - at
      noted == IF minutesUntilSession < LateCancelHours * MinutesPerHour
               THEN [doc EXCEPT !.notesAdmin = LateNote(minutesUntilSession)]
               ELSE doc
  IN [noted EXCEPT !.status = "cancelled", !.cancelledBy = userId,
                   !.cancelledAt = at, !.reason = reason]

CancelRequest(p, caller, sid, reason) ==
  LET verdict == CancelVerdict(sid, caller, reason)
  IN /\ Free(p)
     /\ IF verdict # "" THEN Respond(p, "cancel", verdict, {}, NoTime)
        ELSE Await(p, [Idle EXCEPT !.op = "cancel", !.pc = "save",
                                   !.caller = caller, !.sid = sid,
                                   !.reason = reason, !.doc = sessions[sid],
                                   !.newdoc = Cancelled(sessions[sid], caller,
                                                        reason, now)])
     /\ UNCHANGED <<sessions, now, stats, sweep, outbox>>

\* a save that would also cancel the occurrences of a cancelled parent
CancelSaveCascading(p) ==
  LET r == req[p]
  IN /\ r.op = "cancel" /\ r.pc = "save"
     /\ sessions' = [i \in DOMAIN sessions |->
                       IF i = r.sid THEN SaveModified(sessions[i], r.doc, r.newdoc)
                       ELSE IF sessions[i].parentSession = r.sid
                       THEN [sessions[i] EXCEPT !.status = "cancelled"]
                       ELSE sessions[i]]
     /\ Await(p, [r EXCEPT !.pc = "notify"])
     /\ UNCHANGED <<now, stats, sweep, outbox>>

CancelSave(p) ==
  LET r == req[p]
  IN /\ r.op = "cancel" /\ r.pc = "save"
     /\ sessions' = [sessions EXCEPT ![r.sid] = SaveModified(@, r.doc, r.newdoc)]
     /\ Await(p, [r EXCEPT !.pc = "notify"])
     /\ UNCHANGED <<now, stats, sweep, outbox>>

\* sendCancellationNotifications (failures are caught), 200
CancelNotified(p, ok) ==
  /\ req[p].op = "cancel" /\ req[p].pc = "notify"
  /\ Mailed("cancellation", req[p].sid, ok)
  /\ Respond(p, "cancel", "cancelled", {}, NoTime)
  /\ UNCHANGED <<sessions, now, stats, sweep>>

CancelRespond(p) == CancelNotified(p, TRUE)

CancelRespondUnsent(p) == CancelNotified(p, FALSE)

----------------------------------------------------------------------------
(* PUT /:id/start                                                          *)

\* the guard with the 15 minute mark itself refused
TooEarlyInclusive(scheduledStart, at) ==
  scheduledStart - at >= StartEarlyMinutes

TooEarly(scheduledStart, at) == scheduledStart - at > StartEarlyMinutes

\* guards that would let a session of any status be started
StartVerdictAnyStatus(sid, userId) ==
  IF Access(sid, userId) # "" THEN Access(sid, userId)
  ELSE IF TooEarly(sessions[sid].scheduledStart, now) THEN "too-early"
  ELSE ""

StartVerdict(sid, userId) ==
  IF Access(sid, userId) # "" THEN Access(sid, userId)
  ELSE IF sessions[sid].status \notin {"scheduled", "confirmed"}
    THEN "invalid-state"
  ELSE IF TooEarly(sessions[sid].scheduledStart, now) THEN "too-early"
  ELSE ""

\* a Start that would record the time and leave the status as it is
StartedKeepingStatus(doc, at) == [doc EXCEPT !.actualStart = at]

\* a Start that would jump to completed
StartedCompleted(doc, at) ==
  [doc EXCEPT !.status = "completed", !.actualStart = at]

Started(doc, at) == [doc EXCEPT !.status = "ongoing", !.actualStart = at]

StartRequest(p, caller, sid) ==
  LET verdict == StartVerdict(sid, caller)
  IN /\ Free(p)
     /\ IF verdict # "" THEN Respond(p, "start", verdict, {}, NoTime)
        ELSE Await(p, [Idle EXCEPT !.op = "start", !.pc = "save",
                                   !.caller = caller, !.sid = sid,
                                   !.doc = sessions[sid],
                                   !.newdoc = Started(sessions[sid], now)])
     /\ UNCHANGED <<sessions, now, stats, sweep, outbox>>

StartSave(p) ==
  LET r == req[p]
  IN /\ r.op = "start" /\ r.pc = "save"
     /\ sessions' = [sessions EXCEPT ![r.sid] = SaveModified(@, r.doc, r.newdoc)]
     /\ Respond(p, "start", "started", {}, NoTime)
     /\ UNCHANGED <<now, stats, sweep, outbox>>

----------------------------------------------------------------------------
(* PUT /:id/end                                                            *)

\* a status check that would let any active session be ended
EndVerdictAnyActive(sid, userId) ==
  IF Access(sid, userId) # "" THEN Access(sid, userId)
  ELSE IF sessions[sid].status \notin {"scheduled", "confirmed", "ongoing"}
    THEN "not-ongoing"
  ELSE ""

EndVerdict(sid, userId) ==
  IF Access(sid, userId) # "" THEN Access(sid, userId)
  ELSE IF sessions[sid].status # "ongoing" THEN "not-ongoing"
  ELSE ""

\* an End that would file the notes of either caller as the student's
EndedNotesToStudent(doc, userId, notes, at) ==
  LET d == [doc EXCEPT !.status = "completed", !.actualEnd = at]
  IN IF notes = "" THEN d ELSE [d EXCEPT !.notesStudent = notes]

Ended(doc, userId, notes, at) ==
  LET d == [doc EXCEPT !.status = "completed", !.actualEnd = at]
  IN IF notes = "" THEN d
     ELSE IF doc.student = userId THEN [d EXCEPT !.notesStudent = notes]
     ELSE [d EXCEPT !.notesTutor = notes]

EndRequest(p, caller, sid, notes) ==
  LET verdict == EndVerdict(sid, caller)
  IN /\ Free(p)
     /\ IF verdict # "" THEN Respond(p, "end", verdict, {}, NoTime)
        ELSE Await(p, [Idle EXCEPT !.op = "end", !.pc = "save",
                                   !.caller = caller, !.sid = sid,
                                   !.notes = notes, !.doc = sessions[sid],
                                   !.newdoc = Ended(sessions[sid], caller,
                                                    notes, now)])
     /\ UNCHANGED <<sessions, now, stats, sweep, outbox>>

EndSave(p) ==
  LET r == req[p]
  IN /\ r.op = "end" /\ r.pc = "save"
     /\ sessions' = [sessions EXCEPT ![r.sid] = SaveModified(@, r.doc, r.newdoc)]
     /\ Await(p, [r EXCEPT !.pc = "stats"])
     /\ UNCHANGED <<now, stats, sweep, outbox>>

\* the two $inc updates; the duration is kept in minutes
updateUserStats(st, session) ==
  LET duration == session.actualEnd - session.actualStart
      learner == [st EXCEPT ![session.student] =
                    [@ EXCEPT !.totalSessions = @ + 1,
                              !.completedSessions = @ + 1,
                              !.hoursLearning = @ + duration]]
  IN [learner EXCEPT ![session.tutor] =
        [@ EXCEPT !.totalSessions = @ + 1,
                  !.completedSessions = @ + 1,
                  !.hoursTeaching = @ + duration]]

\* updateUserStats(session), then 200 with the duration
EndRespond(p) ==
  LET r == req[p]
  IN /\ r.op = "end" /\ r.pc = "stats"
     /\ stats' = updateUserStats(stats, r.newdoc)
     /\ Respond(p, "end", "ended", {},
                r.newdoc.actualEnd - r.newdoc.actualStart)
     /\ UNCHANGED <<sessions, now, sweep, outbox>>

----------------------------------------------------------------------------
(* A store write that fails: save() rejects, the handler's catch answers   *)
(* 500                                                                     *)

\* the step request p is stopped at is a save()
AwaitsSave(r) ==
  \/ r.pc = "save"
  \/ /\ r.op = "book" /\ r.pc = "recur"
     /\ r.currentDate < r.endDate
     /\ AdvanceDate(r.currentDate, r.frequency) < r.endDate
  \/ r.op = "book" /\ r.pc = "link" /\ r.linkIdx <= Len(r.created)

StoreFault(p) ==
  /\ AwaitsSave(req[p])
  /\ Respond(p, req[p].op, "server-error", {}, NoTime)
  /\ UNCHANGED <<sessions, now, stats, sweep, outbox>>

----------------------------------------------------------------------------
(* The reminder cron job, every 15 minutes                                 *)

\* the ids of S in ascending order, the order find() returns them in
RECURSIVE Ascending(_)
Ascending(S) ==
  IF S = {} THEN <<>>
  ELSE LET m == CHOOSE x \in S : \A y \in S : x <= y
       IN <<m>> \o Ascending(S \ {m})

\* a query that would also take the sessions that have already started
SweepQueryPastToo ==
  { i \in SessionIds :
      /\ sessions[i].scheduledStart <= now + HoursPerDay * MinutesPerHour
      /\ sessions[i].status \in {"scheduled", "confirmed"}
      /\ sessions[i].remindersSent = FALSE }

\* a query that would not look at the reminder flag
SweepQueryUnflagged ==
  { i \in SessionIds :
      /\ sessions[i].scheduledStart >= now
      /\ sessions[i].scheduledStart <= now + HoursPerDay * MinutesPerHour
      /\ sessions[i].status \in {"scheduled", "confirmed"} }

\* sessions starting within the next 24 hours that have had no reminder
SweepQuery ==
  { i \in SessionIds :
      /\ sessions[i].scheduledStart >= now
      /\ sessions[i].scheduledStart <= now + HoursPerDay * MinutesPerHour
      /\ sessions[i].status \in {"scheduled", "confirmed"}
      /\ sessions[i].remindersSent = FALSE }

\* Session.find(...): the documents to remind, loaded once for the run
SweepFind ==
  /\ sweep.pc = "idle"
  /\ sweep' = IF SweepQuery = {} THEN sweep
              ELSE [sweep EXCEPT !.pc = "send",
                                 !.selected = Ascending(SweepQuery), !.idx = 1]
  /\ UNCHANGED <<sessions, now, req, response, stats, outbox>>

\* sendSessionReminders(session) (failures are caught)
SweepReminded(ok) ==
  LET sid == sweep.selected[sweep.idx]
  IN /\ sweep.pc = "send"
     /\ Notify("reminder", sid, Attempts("reminder", sid) + 1, ok)
     /\ sweep' = [sweep EXCEPT !.pc = "save"]
     /\ UNCHANGED <<sessions, now, req, response, stats>>

SweepSend == SweepReminded(TRUE)

SweepSendUnsent == SweepReminded(FALSE)

\* reminders.sent = true; reminders.sentAt = new Date(); session.save()
SweepSave ==
  LET sid == sweep.selected[sweep.idx]
  IN /\ sweep.pc = "save"
     /\ sessions' = [sessions EXCEPT ![sid].remindersSent = TRUE,
                                     ![sid].remindersSentAt = now]
     /\ sweep' = IF sweep.idx < Len(sweep.selected)
                 THEN [sweep EXCEPT !.pc = "send", !.idx = @ + 1]
                 ELSE [sweep EXCEPT !.pc = "idle", !.selected = <<>>,
                                    !.idx = 0]
     /\ UNCHANGED <<now, req, response, stats, outbox>>

SweepStep == SweepFind \/ SweepSend \/ SweepSave

\* the same callback, started by the schedule while a run is in flight:
\* Session.find(...)
LateFind ==
  /\ sweep.pc # "idle" /\ sweep.late.pc = "idle"
  /\ SweepQuery # {}
  /\ sweep' = [sweep EXCEPT !.late = [pc |-> "send",
                                      selected |-> Ascending(SweepQuery),
                                      idx |-> 1]]
  /\ UNCHANGED <<sessions, now, req, response, stats, outbox>>

\* sendSessionReminders(session) of the late run
LateSend ==
  LET sid == sweep.late.selected[sweep.late.idx]
  IN /\ sweep.late.pc = "send"
     /\ Notify("reminder", sid, Attempts("reminder", sid) + 1, TRUE)
     /\ sweep' = [sweep EXCEPT !.late.pc = "save"]
     /\ UNCHANGED <<sessions, now, req, response, stats>>

\* the flag, the timestamp and session.save() of the late run
LateSave ==
  LET sid == sweep.late.selected[sweep.late.idx]
  IN /\ sweep.late.pc = "save"
     /\ sessions' = [sessions EXCEPT ![sid].remindersSent = TRUE,
                                     ![sid].remindersSentAt = now]
     /\ sweep' = IF sweep.late.idx < Len(sweep.late.selected)
                 THEN [sweep EXCEPT !.late.pc = "send", !.late.idx = @ + 1]
                 ELSE [sweep EXCEPT !.late = RunIdle]
     /\ UNCHANGED <<now, req, response, stats, outbox>>

LateStep == LateFind \/ LateSend \/ LateSave

----------------------------------------------------------------------------
(* The clock: new Date() never goes back                                   *)

Tick(instants) ==
  /\ \E t \in instants : t > now /\ now' = t
  /\ UNCHANGED <<sessions, req, response, stats, sweep, outbox>>

----------------------------------------------------------------------------
(* Requests: the inputs of each handler are drawn from the sets of d      *)

\* Tuesday 2025-01-07 10:00-11:00, 10:30-11:30, 11:00-12:00
W1 == <<2040, 2100>>
W2 == <<2070, 2130>>
W3 == <<2100, 2160>>
\* Tuesday 2025-01-14 10:00-11:00, a week after W1
W4 == <<W1[1] + MinutesPerWeek, W1[2] + MinutesPerWeek>>

NotRecurring == [isRecurring |-> FALSE, frequency |-> "", span |-> 0]

\* a weekly series that ends just after its first repetition
WeeklyOnce == [isRecurring |-> TRUE, frequency |-> "weekly",
               span |-> MinutesPerWeek + 1]

Book(p, d) ==
  \E caller \in d.students, tutor \in d.tutors, w \in d.windows,
     type \in d.types, rec \in d.recurrences :
      BookRequest(p, d.cap, caller, tutor, w[1], w[2], type, rec.isRecurring,
                  rec.frequency,
                  IF rec.isRecurring THEN w[1] + rec.span ELSE NoTime)

Reschedule(p, d) ==
  \E caller \in d.callers, sid \in 1..d.cap, w \in d.windows :
    RescheduleRequest(p, caller, sid, w[1], w[2])

Cancel(p, d) ==
  \E caller \in d.callers, sid \in 1..d.cap, reason \in d.reasons :
    CancelRequest(p, caller, sid, reason)

Start(p, d) ==
  \E caller \in d.callers, sid \in 1..d.cap : StartRequest(p, caller, sid)

End(p, d) ==
  \E caller \in d.callers, sid \in 1..d.cap, notes \in d.notes :
    EndRequest(p, caller, sid, notes)

\* Monday 2025-01-06 10:00-11:00 and Friday 2025-01-31 10:00-11:00
WMon == <<600, 660>>
WFri == <<36600, 36660>>

\* weekly until 2025-01-27 00:00 from WMon: three occurrences
WeeklyThrice == [isRecurring |-> TRUE, frequency |-> "weekly", span |-> 29640]
\* weekly, endDate exactly two weeks after the first start
WeeklyToBoundary == [isRecurring |-> TRUE, frequency |-> "weekly", span |-> 2 * MinutesPerWeek]
\* weekly, endDate at the first start
WeeklyNone == [isRecurring |-> TRUE, frequency |-> "weekly", span |-> 0]
BiweeklyOnce == [isRecurring |-> TRUE, frequency |-> "biweekly", span |-> 2 * MinutesPerWeek + 1]
\* monthly until 2025-04-01 00:00 from WFri: 01-31, 02-28, 03-28
MonthlyTwice == [isRecurring |-> TRUE, frequency |-> "monthly", span |-> 85800]

\* booking a single session that needs no meeting link
BookStep(p, d) == Book(p, d) \/ BookSave(p) \/ BookRespond(p)

\* the further steps of a recurring and of an online booking
SeriesStep(p) == BookRecur(p)

LinkStep(p) == BookLink(p)

LifecycleStep(p, d) ==
  \/ Reschedule(p, d) \/ RescheduleCheck(p) \/ RescheduleSave(p)
  \/ RescheduleRespond(p)
  \/ Cancel(p, d) \/ CancelSave(p) \/ CancelRespond(p)
  \/ Start(p, d) \/ StartSave(p)
  \/ End(p, d) \/ EndSave(p) \/ EndRespond(p)

\* Spec: concurrent requests of a student on the sessions with a tutor
Concurrent ==
  [ cap |-> MaxSessions - 1, students |-> {"u1"}, tutors |-> {"u3"},
    callers |-> {"u1"}, windows |-> {W1, W2}, types |-> {"offline"},
    recurrences |-> {NotRecurring},
    reasons |-> {"ill"}, notes |-> {""}, instants |-> {2025} ]

Next ==
  \/ Tick(Concurrent.instants)
  \/ \E p \in Procs : BookStep(p, Concurrent) \/ LifecycleStep(p, Concurrent)

Spec == Init /\ [][Next]_vars

\* RaceSpec: concurrent bookings of one tutor by two students
Racing ==
  [ cap |-> MaxSessions, students |-> {"u1", "u2"}, tutors |-> {"u3"},
    callers |-> {}, windows |-> {W1, W2, W3}, types |-> {"offline", "online"},
    recurrences |-> {NotRecurring},
    reasons |-> {"ill"}, notes |-> {""}, instants |-> {2025} ]

RaceNext ==
  \/ Tick(Racing.instants)
  \/ \E p \in Procs : BookStep(p, Racing) \/ LinkStep(p)

RaceSpec == Init /\ [][RaceNext]_vars

\* SeqSpec: requests served one at a time; a student, a tutor, an outsider
Sequential ==
  [ cap |-> MaxSessions, students |-> {"u1"}, tutors |-> {"u3"},
    callers |-> {"u1", "u2", "u3"}, windows |-> {W1, W2, W3},
    types |-> {"offline"}, recurrences |-> {NotRecurring},
    reasons |-> {"ill"}, notes |-> {""}, instants |-> {2025, 2050} ]

SeqNext ==
  \/ Tick(Sequential.instants)
  \/ BookStep("p1", Sequential) \/ LifecycleStep("p1", Sequential)

SeqSpec == Init /\ [][SeqNext]_vars

\* ClockSpec: requests served one at a time, around the 15 minute and the
\* 24 hour marks before the start of W1
Timed ==
  [ cap |-> MaxSessions - 1, students |-> {"u1"}, tutors |-> {"u3"},
    callers |-> {"u1", "u2", "u3"}, windows |-> {W1, W2},
    types |-> {"offline"}, recurrences |-> {NotRecurring},
    reasons |-> {"ill"}, notes |-> {""},
    instants |-> {600, 601, 2024, 2025, 2050} ]

ClockNext ==
  \/ Tick(Timed.instants)
  \/ BookStep("p1", Timed) \/ LifecycleStep("p1", Timed)

ClockSpec == Init /\ [][ClockNext]_vars

\* SeriesSpec: requests served one at a time, users in either role,
\* recurring bookings
Series ==
  [ cap |-> MaxSessions + 1, students |-> {"u1", "u2"},
    tutors |-> {"u2", "u3"}, callers |-> {"u1"}, windows |-> {W1, W4},
    types |-> {"offline"}, recurrences |-> {NotRecurring, WeeklyOnce},
    reasons |-> {"ill"}, notes |-> {""}, instants |-> {2050} ]

SeriesNext ==
  \/ Tick(Series.instants)
  \/ BookStep("p1", Series) \/ SeriesStep("p1")
  \/ LifecycleStep("p1", Series)

SeriesSpec == Init /\ [][SeriesNext]_vars

\* ExpandSpec: recurring bookings of every frequency, served one at a time
Expanding ==
  [ cap |-> MaxSessions + 1, students |-> {"u1"}, tutors |-> {"u2"},
    callers |-> {"u1"}, windows |-> {WMon, WFri}, types |-> {"offline"},
    recurrences |-> {WeeklyThrice, WeeklyToBoundary, WeeklyNone, BiweeklyOnce,
                     MonthlyTwice},
    reasons |-> {"ill"}, notes |-> {""}, instants |-> {} ]

CancelStep(p, d) == Cancel(p, d) \/ CancelSave(p) \/ CancelRespond(p)

ExpandNext ==
  \/ BookStep("p1", Expanding) \/ SeriesStep("p1")
  \/ CancelStep("p1", Expanding)

ExpandSpec == Init /\ [][ExpandNext]_vars

\* SeedSpec: the store starts with one session of u1 with u3 inserted
\* directly with a status of the schema, as the tests insert theirs; then
\* requests of the student, the tutor and an outsider, served one at a time
SeedSessions ==
  { [NewSession("u1", "u3", "math", W1[1], W1[2], "offline", FALSE, "",
                NoTime, NoId) EXCEPT !.status = st] :
      st \in {"scheduled", "confirmed", "no-show"} }

Seeded ==
  [ cap |-> 1, students |-> {}, tutors |-> {},
    callers |-> {"u1", "u2", "u3"}, windows |-> {W1, W2},
    types |-> {"offline"}, recurrences |-> {NotRecurring},
    reasons |-> {"ill"}, notes |-> {""},
    instants |-> {600, 601, 2025, 2050} ]

SeedInit ==
  /\ sessions \in { <<s>> : s \in SeedSessions }
  /\ now = 0
  /\ req = [p \in Procs |-> Idle]
  /\ response = NoResponse
  /\ stats = [u \in Users |-> [totalSessions |-> 0, completedSessions |-> 0,
                               hoursLearning |-> 0, hoursTeaching |-> 0]]
  /\ sweep = SweepIdle
  /\ outbox = {}

SeedNext ==
  \/ Tick(Seeded.instants)
  \/ LifecycleStep("p1", Seeded)

SeedSpec == SeedInit /\ [][SeedNext]_vars

RescheduleStep(p, d) ==
  \/ Reschedule(p, d) \/ RescheduleCheck(p) \/ RescheduleSave(p)
  \/ RescheduleRespond(p)

\* the notification helpers failing
UnsentStep(p) ==
  \/ BookRespondUnsent(p) \/ RescheduleRespondUnsent(p)
  \/ CancelRespondUnsent(p)
  \/ SweepSendUnsent

\* NotifySpec: the requests that notify, with the cron job running between
\* their steps, mails delivered or failing
Notifying ==
  [ cap |-> MaxSessions - 1, students |-> {"u1"}, tutors |-> {"u3"},
    callers |-> {"u1"}, windows |-> {W1, W2}, types |-> {"offline"},
    recurrences |-> {NotRecurring},
    reasons |-> {"ill"}, notes |-> {""}, instants |-> {600, 700} ]

NotifyNext ==
  \/ Tick(Notifying.instants)
  \/ BookStep("p1", Notifying) \/ RescheduleStep("p1", Notifying)
  \/ CancelStep("p1", Notifying)
  \/ SweepStep
  \/ UnsentStep("p1")

NotifySpec == Init /\ [][NotifyNext]_vars

StartStep(p, d) == Start(p, d) \/ StartSave(p)

EndStep(p, d) == End(p, d) \/ EndSave(p) \/ EndRespond(p)

\* SweepSpec: runs of the cron job, one after another, between the steps of
\* Book, Cancel, Start and End requests
Sweeping ==
  [ cap |-> MaxSessions, students |-> {"u1"}, tutors |-> {"u3"},
    callers |-> {"u1"}, windows |-> {W1, W3}, types |-> {"offline"},
    recurrences |-> {NotRecurring},
    reasons |-> {"ill"}, notes |-> {""}, instants |-> {600, 2025} ]

SweepNext ==
  \/ Tick(Sweeping.instants)
  \/ BookStep("p1", Sweeping) \/ CancelStep("p1", Sweeping)
  \/ StartStep("p1", Sweeping) \/ EndStep("p1", Sweeping)
  \/ SweepStep

SweepSpec == Init /\ [][SweepNext]_vars

\* FaultSpec: requests served one at a time over a store whose writes may
\* fail; single, recurring, online and offline bookings
Faulty ==
  [ cap |-> MaxSessions, students |-> {"u1"}, tutors |-> {"u3"},
    callers |-> {"u1"}, windows |-> {W1, W4},
    types |-> {"offline", "online"},
    recurrences |-> {NotRecurring, WeeklyOnce},
    reasons |-> {"ill"}, notes |-> {""}, instants |-> {2025, 2050} ]

FaultNext ==
  \/ Tick(Faulty.instants)
  \/ BookStep("p1", Faulty) \/ SeriesStep("p1") \/ LinkStep("p1")
  \/ LifecycleStep("p1", Faulty)
  \/ StoreFault("p1")

FaultSpec == Init /\ [][FaultNext]_vars

\* CheckSpec: bookings with windows that are reversed, empty, past or
\* starting now, and with tutors that are students or unknown
Checking ==
  [ cap |-> MaxSessions, students |-> {"u1"},
    tutors |-> {"u3", "u1", "u9"}, callers |-> {"u1"},
    windows |-> {W1, W2, <<W3[1], W1[1]>>, <<W1[1], W1[1]>>},
    types |-> {"offline"}, recurrences |-> {NotRecurring},
    reasons |-> {"ill"}, notes |-> {""}, instants |-> {W1[1], 2050} ]

CheckNext ==
  \/ Tick(Checking.instants)
  \/ BookStep("p1", Checking) \/ CancelStep("p1", Checking)

CheckSpec == Init /\ [][CheckNext]_vars

\* Tuesday 2025-01-07 08:30-09:30 and 11:30-12:30, across the edges of the
\* tutors' Tuesday slot 09:00-12:00
WEarly == <<1950, 2010>>
WLate == <<2130, 2190>>
\* Tuesday 23:30 to Wednesday 00:30, and Tuesday 10:00 to Wednesday 11:00
WOvernight == <<2850, 2910>>
WTwoDays == <<W1[1], W1[2] + MinutesPerDay>>

\* AvailSpec: bookings served one at a time, with windows inside, across
\* and outside the tutor's slots, some ending on the next day
Availing ==
  [ cap |-> MaxSessions, students |-> {"u1"}, tutors |-> {"u3"},
    callers |-> {"u1"},
    windows |-> {W1, WEarly, WLate, WOvernight, WTwoDays},
    types |-> {"offline"}, recurrences |-> {NotRecurring},
    reasons |-> {"ill"}, notes |-> {""}, instants |-> {600} ]

AvailNext ==
  \/ Tick(Availing.instants)
  \/ BookStep("p1", Availing) \/ CancelStep("p1", Availing)

AvailSpec == Init /\ [][AvailNext]_vars

\* GuardSpec: the seeded store, with requests of the student, the tutor and
\* an outsider served one at a time, Cancel with and without a reason
Guarded ==
  [ cap |-> 1, students |-> {}, tutors |-> {},
    callers |-> {"u1", "u2", "u3"}, windows |-> {W1, W2},
    types |-> {"offline"}, recurrences |-> {NotRecurring},
    reasons |-> {"ill", ""}, notes |-> {""},
    instants |-> {2025, 2050} ]

GuardNext ==
  \/ Tick(Guarded.instants)
  \/ LifecycleStep("p1", Guarded)

GuardSpec == SeedInit /\ [][GuardNext]_vars

List(p, d) ==
  \E caller \in d.callers, status \in d.statuses, role \in d.roles,
     page \in d.pages, limit \in d.limits :
    ListRequest(p, caller, status, role, page, limit)

ListStep(p, d) == List(p, d) \/ ListCount(p)

\* ListSpec: requests served one at a time; u2 learns from u3 and teaches
\* u1; listings with and without filters, of a whole page or of one session
Listing ==
  [ cap |-> MaxSessions, students |-> {"u1", "u2"}, tutors |-> {"u2", "u3"},
    callers |-> {"u2"}, windows |-> {W1, W3}, types |-> {"offline"},
    recurrences |-> {NotRecurring},
    reasons |-> {"ill"}, notes |-> {""}, instants |-> {},
    statuses |-> {"", "scheduled", "cancelled"},
    roles |-> {"", "student", "tutor"},
    pages |-> {DefaultPage, DefaultPage + 1}, limits |-> {1, DefaultLimit} ]

ListNext ==
  \/ BookStep("p1", Listing) \/ CancelStep("p1", Listing)
  \/ ListStep("p1", Listing)

ListSpec == Init /\ [][ListNext]_vars

\* FrameSpec: every operation on a session, requested by its student or its
\* tutor and served one at a time, with the cron job running between the
\* steps
Framed ==
  [ cap |-> MaxSessions - 1, students |-> {"u1"}, tutors |-> {"u3"},
    callers |-> {"u1", "u3"}, windows |-> {W1, W3}, types |-> {"offline"},
    recurrences |-> {NotRecurring},
    reasons |-> {"ill"}, notes |-> {""}, instants |-> {600, 2025, 2090} ]

FrameNext ==
  \/ Tick(Framed.instants)
  \/ BookStep("p1", Framed) \/ LifecycleStep("p1", Framed)
  \/ SweepStep

FrameSpec == Init /\ [][FrameNext]_vars

\* Tuesday 2025-01-07 10:00-10:30, the first half of W1
WShort == <<W1[1], 2070>>

\* MoveSpec: concurrent Reschedule requests of the student and the tutor of
\* one session
Moving ==
  [ cap |-> MaxSessions - 1, students |-> {"u1"}, tutors |-> {"u3"},
    callers |-> {"u1", "u3"}, windows |-> {W1, W3, WShort},
    types |-> {"offline"}, recurrences |-> {NotRecurring},
    reasons |-> {"ill"}, notes |-> {""}, instants |-> {600} ]

MoveNext ==
  \/ Tick(Moving.instants)
  \/ \E p \in Procs : BookStep(p, Moving) \/ RescheduleStep(p, Moving)

MoveSpec == Init /\ [][MoveNext]_vars

\* RemindSpec: runs of the cron job 24 hours before, at and after the start
\* of W1, between bookings and cancellations served one at a time
Reminding ==
  [ cap |-> MaxSessions, students |-> {"u1"}, tutors |-> {"u3"},
    callers |-> {"u3"}, windows |-> {W1, W3}, types |-> {"offline"},
    recurrences |-> {NotRecurring},
    reasons |-> {"ill"}, notes |-> {""}, instants |-> {600, W1[1] - 1, W1[1], 2050} ]

RemindNext ==
  \/ Tick(Reminding.instants)
  \/ BookStep("p1", Reminding) \/ CancelStep("p1", Reminding)
  \/ SweepStep

RemindSpec == Init /\ [][RemindNext]_vars

\* OverlapSpec: runs of the cron job, the next one starting before the one
\* in flight has finished, between bookings served one at a time
Overlapping ==
  [ cap |-> MaxSessions, students |-> {"u1"}, tutors |-> {"u3"},
    callers |-> {"u1"}, windows |-> {W1, W3}, types |-> {"offline"},
    recurrences |-> {NotRecurring},
    reasons |-> {"ill"}, notes |-> {""}, instants |-> {600, 2025} ]

OverlapNext ==
  \/ Tick(Overlapping.instants)
  \/ BookStep("p1", Overlapping)
  \/ SweepStep \/ LateStep

OverlapSpec == Init /\ [][OverlapNext]_vars

\* NoteSpec: a session booked and started, then End requests of the student
\* and of the tutor, with and without notes, which may interleave
Noting ==
  [ cap |-> MaxSessions - 1, students |-> {"u1"}, tutors |-> {"u3"},
    callers |-> {"u1", "u3"}, windows |-> {W1}, types |-> {"offline"},
    recurrences |-> {NotRecurring},
    reasons |-> {"ill"}, notes |-> {"", "went well"}, instants |-> {2025, 2050} ]

NoteNext ==
  \/ Tick(Noting.instants)
  \/ BookStep("p1", Noting) \/ StartStep("p1", Noting)
  \/ \E p \in Procs : EndStep(p, Noting)

NoteSpec == Init /\ [][NoteNext]_vars

\* FamilySpec: single sessions and weekly series of a parent and a child,
\* then every operation of the student on any of them, one at a time
Family ==
  [ cap |-> MaxSessions, students |-> {"u1"}, tutors |-> {"u3"},
    callers |-> {"u1"}, windows |-> {W1, W4}, types |-> {"offline"},
    recurrences |-> {NotRecurring, WeeklyOnce},
    reasons |-> {"ill"}, notes |-> {""}, instants |-> {2025} ]

FamilyNext ==
  \/ Tick(Family.instants)
  \/ BookStep("p1", Family) \/ SeriesStep("p1")
  \/ LifecycleStep("p1", Family)

FamilySpec == Init /\ [][FamilyNext]_vars

\* bookings whose body carries a location with or without a meeting link
BookLocated(p, d) ==
  \E caller \in d.students, tutor \in d.tutors, w \in d.windows,
     type \in d.types, rec \in d.recurrences, link \in d.links :
      BookRequestLocated(p, d.cap, caller, tutor, w[1], w[2], type,
                         rec.isRecurring, rec.frequency,
                         IF rec.isRecurring THEN w[1] + rec.span ELSE NoTime,
                         link)

\* LinkSpec: online and offline bookings, single and weekly, served one at
\* a time
Linking ==
  [ cap |-> MaxSessions, students |-> {"u1"}, tutors |-> {"u3"},
    callers |-> {"u1"}, windows |-> {W1, W3}, types |-> {"offline", "online"},
    recurrences |-> {NotRecurring, WeeklyOnce},
    reasons |-> {"ill"}, notes |-> {""}, instants |-> {},
    links |-> {NoId, GivenLink} ]

LinkNext ==
  \/ BookLocated("p1", Linking)
  \/ BookSave("p1") \/ SeriesStep("p1") \/ LinkStep("p1") \/ BookRespond("p1")
  \/ CancelStep("p1", Linking)

LinkSpec == Init /\ [][LinkNext]_vars

\* ParentSpec: recurring bookings only, of two concurrent requests, with
\* parent windows that are free, taken, or outside the tutor's slots
Parental ==
  [ cap |-> MaxSessions, students |-> {"u1"}, tutors |-> {"u3"},
    callers |-> {"u1"}, windows |-> {W1, W2, WEarly}, types |-> {"offline"},
    recurrences |-> {WeeklyOnce, BiweeklyOnce},
    reasons |-> {"ill"}, notes |-> {""}, instants |-> {600} ]

ParentNext ==
  \/ Tick(Parental.instants)
  \/ \E p \in Procs :
       \/ BookStep(p, Parental) \/ SeriesStep(p)
       \/ CancelStep(p, Parental)

ParentSpec == Init /\ [][ParentNext]_vars

\* TwiceSpec: bookings and starts served one at a time, while two End
\* requests may be in flight together
Twice ==
  [ cap |-> MaxSessions, students |-> {"u1"}, tutors |-> {"u3"},
    callers |-> {"u1", "u3"}, windows |-> {W1, W2}, types |-> {"offline"},
    recurrences |-> {NotRecurring},
    reasons |-> {"ill"}, notes |-> {""}, instants |-> {2025, 2050} ]

TwiceNext ==
  \/ Tick(Twice.instants)
  \/ BookStep("p1", Twice) \/ StartStep("p1", Twice)
  \/ \E p \in Procs : EndStep(p, Twice)

TwiceSpec == Init /\ [][TwiceNext]_vars

\* a recurrence with a future endDate and no frequency, which the validators
\* of the route and the schema let through
NoFrequency == [isRecurring |-> TRUE, frequency |-> "", span |-> MinutesPerWeek + 1]

\* LoopSpec: recurring bookings with and without a frequency, served one at
\* a time
Looping ==
  [ cap |-> StoreRoom, students |-> {"u1"}, tutors |-> {"u3"},
    callers |-> {"u1"}, windows |-> {W1, W3}, types |-> {"offline"},
    recurrences |-> {NotRecurring, WeeklyOnce, BiweeklyOnce, NoFrequency},
    reasons |-> {"ill"}, notes |-> {""}, instants |-> {600} ]

LoopNext ==
  \/ Tick(Looping.instants)
  \/ BookStep("p1", Looping) \/ SeriesStep("p1")
  \/ CancelStep("p1", Looping)

LoopSpec == Init /\ [][LoopNext]_vars

----------------------------------------------------------------------------
(* Vocabulary of the properties                                            *)

Active(s) == s.status \in ActiveStatuses

\* half-open windows [start, end) share a point in time
Overlaps(s, start, end) == s.scheduledStart < end /\ start < s.scheduledEnd

\* one window ends exactly where the other starts
BackToBack(s, start, end) == s.scheduledEnd = start \/ s.scheduledStart = end

\* user u takes part in session s, as student or as tutor
Involves(s, u) == s.student = u \/ s.tutor = u

HasCancellation(s) ==
  s.cancelledBy # NoUser \/ s.cancelledAt # NoTime \/ s.reason # ""

Cancellation(s) == <<s.cancelledBy, s.cancelledAt, s.reason>>

\* process p takes its step that writes an existing session
Saves(p) == req[p].pc = "save" /\ req[p].op # "book" /\ req'[p] # req[p]

----------------------------------------------------------------------------
(* C1: a valid Book(s, t, w) served on its own is answered with a         *)
(* scheduling conflict and inserts nothing whenever an active stored      *)
(* session involves s or t, in either role, and overlaps w.               *)

C1_BookRejectsOverlap ==
  [][\A p \in Procs, s \in Series.students, t \in Series.tutors,
        w \in Series.windows, type \in Series.types,
        rec \in Series.recurrences :
       ( /\ BookRequest(p, Series.cap, s, t, w[1], w[2], type,
                        rec.isRecurring, rec.frequency,
                        IF rec.isRecurring THEN w[1] + rec.span ELSE NoTime)
         /\ w[1] < w[2] /\ w[1] > now /\ Role(t) \in {"tutor", "both"}
         /\ \E i \in SessionIds :
               /\ Active(sessions[i])
               /\ Involves(sessions[i], s) \/ Involves(sessions[i], t)
               /\ Overlaps(sessions[i], w[1], w[2]) )
       => ( /\ response'.op = "book" /\ response'.result = "conflict"
            /\ req'[p] = Idle
            /\ sessions' = sessions )]_vars

----------------------------------------------------------------------------
(* C2: no double-booking: no two distinct active sessions with the same   *)
(* tutor, or with the same student, have overlapping scheduled windows,   *)
(* in any state reached by requests served one at a time.                 *)

DoubleBooked(i, j) ==
  /\ i # j
  /\ Active(sessions[i]) /\ Active(sessions[j])
  /\ sessions[i].tutor = sessions[j].tutor
       \/ sessions[i].student = sessions[j].student
  /\ Overlaps(sessions[i], sessions[j].scheduledStart, sessions[j].scheduledEnd)

C2_NoDoubleBooking == \A i, j \in SessionIds : ~DoubleBooked(i, j)

----------------------------------------------------------------------------
(* C3: the conflict query of Book and of Reschedule never returns a       *)
(* session whose window only touches the candidate window (one ends       *)
(* where the other starts), and a conflict answer always rests on a       *)
(* session that shares time with the candidate window.                    *)

\* the answer process p gives in this step, if it gives one
C3_Answer(p) == IF req'[p] = Idle THEN response' ELSE NoResponse

C3_Query(answer, start, end) ==
  /\ \A i \in answer.conflicts : ~BackToBack(sessions[i], start, end)
  /\ answer.result = "conflict" =>
       \E i \in answer.conflicts :
          Active(sessions[i]) /\ Overlaps(sessions[i], start, end)

C3_BackToBackNoConflict ==
  [][/\ \A p \in Procs, s \in Sequential.students, t \in Sequential.tutors,
           w \in Sequential.windows, type \in Sequential.types :
          BookRequest(p, Sequential.cap, s, t, w[1], w[2], type, FALSE, "",
                      NoTime)
          => C3_Query(C3_Answer(p), w[1], w[2])
     /\ \A p \in Procs :
          RescheduleCheck(p)
          => /\ req[p].sid \notin C3_Answer(p).conflicts
             /\ C3_Query(C3_Answer(p), req[p].start, req[p].end)]_vars

\* both sessions of the pair are active and the second starts when the
\* first ends, after a successful Book
C3_Witness ==
  /\ Len(sessions) = 2
  /\ Active(sessions[1]) /\ Active(sessions[2])
  /\ sessions[1].student = sessions[2].student
  /\ sessions[1].tutor = sessions[2].tutor
  /\ sessions[2].scheduledStart = sessions[1].scheduledEnd
  /\ req["p1"] = Idle
  /\ response.op = "book" /\ response.result = "created"

----------------------------------------------------------------------------
(* C4: once the stored status of a session is completed or cancelled, no  *)
(* step changes it.                                                       *)

C4_TerminalPermanent ==
  [][\A i \in SessionIds :
       sessions[i].status \in {"completed", "cancelled"}
       => sessions'[i].status = sessions[i].status]_vars

----------------------------------------------------------------------------
(* C5: every change of a stored status is an edge of the chain            *)
(* scheduled -> confirmed -> ongoing -> completed, or goes from scheduled *)
(* or confirmed to cancelled, or from an active status to no-show.        *)

ChainEdges ==
  { <<"scheduled", "confirmed">>, <<"confirmed", "ongoing">>,
    <<"ongoing", "completed">>,
    <<"scheduled", "cancelled">>, <<"confirmed", "cancelled">>,
    <<"scheduled", "no-show">>, <<"confirmed", "no-show">>,
    <<"ongoing", "no-show">> }

HandlerEdges ==
  { <<"scheduled", "ongoing">>, <<"confirmed", "ongoing">>,
    <<"ongoing", "completed">>,
    <<"scheduled", "cancelled">>, <<"confirmed", "cancelled">>,
    <<"confirmed", "scheduled">> }

----------------------------------------------------------------------------
(* C6: of two concurrent Cancel calls on one session only one writes: a   *)
(* Cancel never writes to a session that is already cancelled.            *)

C6_CancelWritesOnce ==
  [][\A p \in Procs :
       Saves(p) /\ req[p].op = "cancel"
       => sessions[req[p].sid].status # "cancelled"]_vars

----------------------------------------------------------------------------
(* C7: the booking race: a Book that has passed its checks inserts its    *)
(* session whatever the store holds by then, so two Book calls that both  *)
(* pass the conflict check before either inserts double-book the tutor.   *)

C7_BookInsertsUnchecked ==
  [][\A p \in Procs :
       req[p].op = "book" /\ req[p].pc = "save" /\ req'[p] # req[p]
       => /\ Len(sessions') = Len(sessions) + 1
          /\ SubSeq(sessions', 1, Len(sessions)) = sessions
          /\ LET s == sessions'[Len(sessions')]
             IN /\ s.student = req[p].caller /\ s.tutor = req[p].tutor
                /\ s.scheduledStart = req[p].start
                /\ s.scheduledEnd = req[p].end
                /\ s.status = "scheduled"]_vars

\* two active sessions of one tutor with overlapping windows
C7_Witness ==
  \E i, j \in SessionIds :
    /\ DoubleBooked(i, j)
    /\ sessions[i].tutor = sessions[j].tutor
    /\ sessions[i].student # sessions[j].student

----------------------------------------------------------------------------
(* C8: actualStart is set only while the status is ongoing or completed,  *)
(* actualEnd only while it is completed, neither changes once set, and    *)
(* actualStart <= actualEnd when both are set.                            *)

C8_ActualTimesState ==
  \A i \in SessionIds :
    LET s == sessions[i]
    IN /\ s.actualStart # NoTime => s.status \in {"ongoing", "completed"}
       /\ s.actualEnd # NoTime => s.status = "completed"
       /\ s.actualStart # NoTime /\ s.actualEnd # NoTime
            => s.actualStart <= s.actualEnd

C8_ActualTimes ==
  /\ []C8_ActualTimesState
  /\ [][\A i \in SessionIds :
          /\ sessions[i].actualStart # NoTime
               => sessions'[i].actualStart = sessions[i].actualStart
          /\ sessions[i].actualEnd # NoTime
               => sessions'[i].actualEnd = sessions[i].actualEnd]_vars

----------------------------------------------------------------------------
(* C9: a session has a cancellation record exactly when its status is     *)
(* cancelled, and the record is written at most once.                     *)

C9_CancellationState ==
  \A i \in SessionIds :
    HasCancellation(sessions[i]) <=> sessions[i].status = "cancelled"

C9_Cancellation ==
  /\ []C9_CancellationState
  /\ [][\A i \in SessionIds :
          HasCancellation(sessions[i])
          => Cancellation(sessions'[i]) = Cancellation(sessions[i])]_vars

----------------------------------------------------------------------------
(* C10: Start by a participant on a scheduled or confirmed session is     *)
(* refused, changing nothing, when more than 15 minutes remain until      *)
(* scheduledStart; otherwise it goes on to write status ongoing and       *)
(* actualStart = the time of the call, however late the call is.          *)

C10_StartWindow ==
  [][/\ \A p \in Procs, u \in Timed.callers, sid \in SessionIds :
          ( /\ StartRequest(p, u, sid)
            /\ Involves(sessions[sid], u)
            /\ sessions[sid].status \in {"scheduled", "confirmed"} )
          => IF sessions[sid].scheduledStart - now > 15
             THEN /\ response'.op = "start" /\ response'.result = "too-early"
                  /\ req'[p] = Idle
                  /\ sessions' = sessions
             ELSE /\ req'[p].op = "start" /\ req'[p].pc = "save"
                  /\ req'[p].sid = sid
                  /\ response' = response
     /\ \A p \in Procs :
          Saves(p) /\ req[p].op = "start"
          => /\ sessions'[req[p].sid].status = "ongoing"
             /\ sessions'[req[p].sid].actualStart \in Timed.instants
             /\ sessions'[req[p].sid].actualStart
                  >= sessions[req[p].sid].scheduledStart - 15
             /\ response'.op = "start" /\ response'.result = "started"]_vars

\* a session started exactly 15 minutes before its scheduled start
C10_Witness ==
  /\ response.op = "start" /\ response.result = "started"
  /\ \E i \in SessionIds :
       /\ sessions[i].status = "ongoing"
       /\ sessions[i].actualStart = sessions[i].scheduledStart - 15

----------------------------------------------------------------------------
(* C11: End by a participant goes through only when the stored status is  *)
(* ongoing, and is refused with the store unchanged otherwise; it writes  *)
(* status completed and actualEnd = the time of the call, and the         *)
(* duration it reports is actualEnd - actualStart of the stored session.  *)

C11_EndCompletes ==
  [][/\ \A p \in Procs, u \in Timed.callers, sid \in SessionIds,
           notes \in Timed.notes :
          EndRequest(p, u, sid, notes) /\ Involves(sessions[sid], u)
          => IF sessions[sid].status = "ongoing"
             THEN /\ req'[p].op = "end" /\ req'[p].pc = "save"
                  /\ req'[p].newdoc.status = "completed"
                  /\ req'[p].newdoc.actualEnd = now
             ELSE /\ req'[p] = Idle
                  /\ response'.op = "end" /\ response'.result = "not-ongoing"
                  /\ sessions' = sessions
     /\ \A p \in Procs :
          Saves(p) /\ req[p].op = "end"
          => /\ sessions'[req[p].sid].status = "completed"
             /\ sessions'[req[p].sid].actualEnd = req[p].newdoc.actualEnd
     /\ \A p \in Procs :
          EndRespond(p)
          => /\ response'.op = "end" /\ response'.result = "ended"
             /\ response'.duration = sessions[req[p].sid].actualEnd
                                       - sessions[req[p].sid].actualStart
             /\ sessions' = sessions]_vars

\* a session started at 09:45 and ended at 10:10: 25 minutes reported
C11_Witness ==
  /\ response.op = "end" /\ response.result = "ended"
  /\ response.duration = 25
  /\ \E i \in SessionIds :
       /\ sessions[i].status = "completed"
       /\ sessions[i].actualEnd - sessions[i].actualStart = 25

----------------------------------------------------------------------------
(* C12: a finished recurring booking with first start S, frequency f and  *)
(* end date E has stored the parent at S and, as its children, exactly    *)
(* one session for every start reached from S by repeated steps of f (7   *)
(* days, 14 days, one calendar month) that lies strictly before E, each   *)
(* with the duration of the parent; nothing starts at or after E.         *)

\* the starts after S, by steps of a fixed number of minutes
C12_FixedStarts(S, step, E) ==
  IF E <= S THEN {}
  ELSE { t \in { S + k * step : k \in 1..((E - S) \div step + 1) } : t < E }

\* the starts after t, month by month
RECURSIVE C12_MonthlyStarts(_, _)
C12_MonthlyStarts(t, E) ==
  IF t < E /\ AddMonth(t) < E
  THEN {AddMonth(t)} \cup C12_MonthlyStarts(AddMonth(t), E)
  ELSE {}

C12_Starts(S, f, E) ==
  CASE f = "weekly" -> C12_FixedStarts(S, 7 * 24 * 60, E)
    [] f = "biweekly" -> C12_FixedStarts(S, 14 * 24 * 60, E)
    [] f = "monthly" -> C12_MonthlyStarts(S, E)

C12_Children(i) == { j \in SessionIds : sessions[j].parentSession = i }

\* no booking is still inserting sessions
C12_Finished ==
  \A p \in Procs : ~(req[p].op = "book" /\ req[p].pc \in {"save", "recur"})

C12_Expansion ==
  C12_Finished =>
    \A i \in SessionIds :
      sessions[i].isRecurring /\ sessions[i].parentSession = NoId
      => LET S == sessions[i].scheduledStart
             E == sessions[i].endDate
             starts == C12_Starts(S, sessions[i].frequency, E)
         IN /\ { sessions[j].scheduledStart : j \in C12_Children(i) } = starts
            /\ Cardinality(C12_Children(i)) = Cardinality(starts)
            /\ \A j \in C12_Children(i) :
                 /\ j > i
                 /\ sessions[j].scheduledStart < E
                 /\ sessions[j].scheduledEnd - sessions[j].scheduledStart
                      = sessions[i].scheduledEnd - S
            \* 2025-01-31 monthly until 2025-04-01: 02-28 and 03-28
            /\ (S = 36600 /\ E = 122400 /\ sessions[i].frequency = "monthly")
                 => starts = {76920, 117240}

\* weekly from Monday 2025-01-06 10:00 until 2025-01-27: the sessions of
\* 01-06, 01-13 and 01-20, and no other
C12_Witness ==
  /\ response.op = "book" /\ response.result = "created"
  /\ Len(sessions) = 3
  /\ sessions[1].frequency = "weekly" /\ sessions[1].endDate = 30240
  /\ <<sessions[1].scheduledStart, sessions[2].scheduledStart,
       sessions[3].scheduledStart>> = <<600, 10680, 20760>>
  /\ sessions[2].parentSession = 1 /\ sessions[3].parentSession = 1

----------------------------------------------------------------------------
(* C13: Reschedule goes through only on a scheduled or confirmed session; *)
(* its write replaces scheduledStart and scheduledEnd by the new window   *)
(* and leaves the status scheduled, so a confirmed session is scheduled   *)
(* again.                                                                 *)

C13_RescheduleResets ==
  [][\A p \in Procs :
       /\ \A u \in Seeded.callers, sid \in SessionIds, w \in Seeded.windows :
            RescheduleRequest(p, u, sid, w[1], w[2]) /\ req'[p] # Idle
            => sessions[sid].status \in {"scheduled", "confirmed"}
       /\ Saves(p) /\ req[p].op = "reschedule"
            => /\ sessions'[req[p].sid].scheduledStart = req[p].start
               /\ sessions'[req[p].sid].scheduledEnd = req[p].end
               /\ sessions'[req[p].sid].status = "scheduled"
       /\ RescheduleRespond(p)
            => /\ response'.op = "reschedule"
               /\ response'.result = "rescheduled"
               /\ sessions' = sessions]_vars

\* a confirmed session has just been moved to another window and is
\* scheduled again
C13_Witness ==
  \E p \in Procs :
    /\ req[p].op = "reschedule" /\ req[p].pc = "notify"
    /\ req[p].doc.status = "confirmed"
    /\ req[p].doc.scheduledStart # req[p].start
    /\ sessions[req[p].sid].status = "scheduled"
    /\ sessions[req[p].sid].scheduledStart = req[p].start
    /\ sessions[req[p].sid].scheduledEnd = req[p].end

----------------------------------------------------------------------------
(* C14: a Reschedule clears the reminder flag: when it has read a session *)
(* whose reminder was sent, and no sweep is running, its write leaves the *)
(* flag false, so the session is due for a fresh reminder.                *)

C14_RescheduleClearsReminder ==
  [][\A p \in Procs :
       ( /\ Saves(p) /\ req[p].op = "reschedule"
         /\ req[p].doc.remindersSent
         /\ sweep.pc = "idle" )
       => sessions'[req[p].sid].remindersSent = FALSE]_vars

----------------------------------------------------------------------------
(* C15: Cancel by a participant with a reason on a scheduled or confirmed *)
(* session goes through; its write sets status cancelled and records who, *)
(* when and why; the admin note becomes a late-cancellation note exactly  *)
(* when fewer than 24 hours remained at the call, and is left as it was   *)
(* otherwise; no other field of the session changes.                      *)

C15_CancelRecords ==
  [][\A p \in Procs :
       /\ \A u \in Seeded.callers, sid \in SessionIds,
             reason \in Seeded.reasons :
            ( /\ CancelRequest(p, u, sid, reason)
              /\ Involves(sessions[sid], u) /\ reason # ""
              /\ sessions[sid].status \in {"scheduled", "confirmed"} )
            => /\ req'[p].op = "cancel" /\ req'[p].pc = "save"
               /\ req'[p].caller = u /\ req'[p].reason = reason
               /\ req'[p].newdoc.cancelledAt = now
       /\ Saves(p) /\ req[p].op = "cancel"
            => LET old == sessions[req[p].sid]
                   new == sessions'[req[p].sid]
                   late == old.scheduledStart - new.cancelledAt < 24 * 60
               IN /\ new.status = "cancelled"
                  /\ new.cancelledBy = req[p].caller
                  /\ new.cancelledAt = req[p].newdoc.cancelledAt
                  /\ new.reason = req[p].reason
                  /\ late => /\ new.notesAdmin # <<>>
                             /\ new.notesAdmin[1] = "Late cancellation"
                  /\ ~late => new.notesAdmin = old.notesAdmin
                  /\ [new EXCEPT !.status = old.status,
                                 !.cancelledBy = old.cancelledBy,
                                 !.cancelledAt = old.cancelledAt,
                                 !.reason = old.reason,
                                 !.notesAdmin = old.notesAdmin] = old
       /\ CancelRespond(p)
            => /\ response'.op = "cancel" /\ response'.result = "cancelled"
               /\ sessions' = sessions]_vars

\* cancelled one minute inside the 24 hours: the note says 24.0 hours
C15_Witness ==
  /\ response.op = "cancel" /\ response.result = "cancelled"
  /\ \E i \in SessionIds :
       /\ sessions[i].status = "cancelled"
       /\ sessions[i].scheduledStart - sessions[i].cancelledAt = 24 * 60 - 1
       /\ sessions[i].notesAdmin = <<"Late cancellation", 240>>

----------------------------------------------------------------------------
(* C16: over any number of runs of the reminder sweep, one after another  *)
(* and between the steps of Book, Cancel, Start and End, the reminder     *)
(* helper is called at most once per session: a run never selects a       *)
(* session whose flag is set, and when a run ends every session it        *)
(* selected has its flag set.                                             *)

C16_RemindedOnce ==
  \A sid \in SessionIds : Attempts("reminder", sid) <= 1

C16_SweepOnce ==
  /\ []C16_RemindedOnce
  /\ [][/\ SweepFind
             => \A k \in 1..Len(sweep'.selected) :
                   sessions[sweep'.selected[k]].remindersSent = FALSE
        /\ SweepSave /\ sweep'.pc = "idle"
             => \A k \in 1..Len(sweep.selected) :
                   sessions'[sweep.selected[k]].remindersSent]_vars

\* the first session was reminded by a run 24 hours ahead; a later run,
\* with that session still due, reminded only the second one
C16_Witness ==
  /\ Len(sessions) = 2 /\ sweep.pc = "idle"
  /\ sessions[1].status = "scheduled" /\ sessions[1].scheduledStart >= now
  /\ sessions[1].remindersSent /\ sessions[1].remindersSentAt = 600
  /\ sessions[2].remindersSent /\ sessions[2].remindersSentAt = 2025
  /\ Attempts("reminder", 1) = 1 /\ Attempts("reminder", 2) = 1

----------------------------------------------------------------------------
(* C17: no operation partially applies: a request that is answered with   *)
(* an error, a failed store write included, has written nothing: the step *)
(* that answers leaves the store alone and no stored session was          *)
(* inserted by that request.                                              *)

C17_NoPartialApply ==
  [][\A p \in Procs :
       ( /\ req[p] # Idle /\ req'[p] = Idle
         /\ response'.op = req[p].op
         /\ response'.result = "server-error" )
       => /\ sessions' = sessions
          /\ \A k \in 1..Len(req[p].created) :
               req[p].created[k] \notin SessionIds]_vars

----------------------------------------------------------------------------
(* C18: a notification that fails changes nothing but the log: the last   *)
(* step of Book, Reschedule and Cancel gives the same answer and leaves   *)
(* the same state whether its mails were delivered or failed, and the     *)
(* reminder sweep goes on to set the flag of a session either way.        *)

\* process p answers result and ends; nothing else but the log changes
C18_Answers(p, op, result) ==
  /\ response' = [op |-> op, result |-> result, conflicts |-> {},
                  duration |-> NoTime]
  /\ req' = [req EXCEPT ![p] = Idle]
  /\ UNCHANGED <<sessions, now, stats, sweep>>

C18_NotificationsSwallowed ==
  [][/\ \A p \in Procs :
          /\ BookRespond(p) \/ BookRespondUnsent(p)
               => C18_Answers(p, "book", "created")
          /\ RescheduleRespond(p) \/ RescheduleRespondUnsent(p)
               => C18_Answers(p, "reschedule", "rescheduled")
          /\ CancelRespond(p) \/ CancelRespondUnsent(p)
               => C18_Answers(p, "cancel", "cancelled")
     /\ SweepSend \/ SweepSendUnsent
          => /\ sweep' = [sweep EXCEPT !.pc = "save"]
             /\ UNCHANGED <<sessions, now, req, response, stats>>
     /\ SweepSave
          => sessions'[sweep.selected[sweep.idx]].remindersSent]_vars

\* the booking mail and the reminder of a session both failed; the session
\* is booked all the same and its reminder flag is set
C18_Witness ==
  \E sid \in SessionIds :
    /\ [kind |-> "booking", sid |-> sid, n |-> 1, ok |-> FALSE] \in outbox
    /\ [kind |-> "reminder", sid |-> sid, n |-> 1, ok |-> FALSE] \in outbox
    /\ sessions[sid].status = "scheduled"
    /\ sessions[sid].remindersSent

----------------------------------------------------------------------------
(* C19: a caller who is neither the student nor the tutor of an existing  *)
(* session is answered Forbidden by Reschedule, Cancel (with a reason),   *)
(* Start and End, whatever the status and the window of the session, and  *)
(* the session is not changed.                                            *)

C19_Forbidden(p, op) ==
  /\ response' = [op |-> op, result |-> "forbidden", conflicts |-> {},
                  duration |-> NoTime]
  /\ req' = [req EXCEPT ![p] = Idle]
  /\ sessions' = sessions

C19_OutsiderForbidden ==
  [][\A p \in Procs, u \in Seeded.callers, sid \in SessionIds :
       ~Involves(sessions[sid], u)
       => /\ \A w \in Seeded.windows :
               RescheduleRequest(p, u, sid, w[1], w[2])
               => C19_Forbidden(p, "reschedule")
          /\ \A reason \in Seeded.reasons \ {""} :
               CancelRequest(p, u, sid, reason) => C19_Forbidden(p, "cancel")
          /\ StartRequest(p, u, sid) => C19_Forbidden(p, "start")
          /\ \A notes \in Seeded.notes :
               EndRequest(p, u, sid, notes) => C19_Forbidden(p, "end")]_vars

\* the outsider has asked to cancel a completed session
C19_Witness ==
  /\ response.op = "cancel" /\ response.result = "forbidden"
  /\ \E i \in SessionIds :
       /\ sessions[i].status = "completed"
       /\ \E u \in Seeded.callers : ~Involves(sessions[i], u)

----------------------------------------------------------------------------
(* C20: Book is refused and inserts nothing when the window does not end  *)
(* after its start, when it starts in the past or at the very instant of  *)
(* the call, or when the tutor id is not a user with role tutor or both.  *)

C20_BookRejectsInvalid ==
  [][\A p \in Procs, s \in Checking.students, t \in Checking.tutors,
        w \in Checking.windows, type \in Checking.types :
       ( /\ BookRequest(p, Checking.cap, s, t, w[1], w[2], type, FALSE, "",
                        NoTime)
         /\ \/ w[1] >= w[2]
            \/ w[1] <= now
            \/ t \notin Users
            \/ Role(t) \notin {"tutor", "both"} )
       => /\ req'[p] = Idle
          /\ sessions' = sessions
          /\ response'.op = "book"
          /\ response'.result =
               IF w[1] >= w[2] THEN "end-before-start"
               ELSE IF w[1] <= now THEN "not-future"
               ELSE "tutor-not-found"]_vars

\* a booking that starts at the very instant of the call (10:00) was
\* refused as not in the future
C20_Witness ==
  /\ now = W1[1]
  /\ response.op = "book" /\ response.result = "not-future"
  /\ \A i \in SessionIds : sessions[i].scheduledStart # W1[1]

----------------------------------------------------------------------------
(* C21: a valid Book with no scheduling conflict goes on to create its    *)
(* session only if the window lies, as points in time, inside one slot of *)
(* the tutor's weekly availability on the day the window starts; for any  *)
(* other window (one that runs past midnight or over more than a day      *)
(* included) it is answered tutor-unavailable and inserts nothing.        *)

\* the window [start, end] lies inside a slot of the tutor on start's day
WithinSlot(tutorId, start, end) ==
  LET midnight == (start \div MinutesPerDay) * MinutesPerDay
  IN \E slot \in Availability(tutorId) :
        /\ slot.day = DayOfWeek(start)
        /\ midnight + slot.startTime <= start
        /\ end <= midnight + slot.endTime

C21_BookNeedsSlot ==
  [][\A p \in Procs, s \in Availing.students, t \in Availing.tutors,
        w \in Availing.windows, type \in Availing.types :
       ( /\ BookRequest(p, Availing.cap, s, t, w[1], w[2], type, FALSE, "",
                        NoTime)
         /\ w[1] < w[2] /\ w[1] > now /\ Role(t) \in {"tutor", "both"}
         /\ checkSchedulingConflicts(s, t, w[1], w[2], NoId) = {}
         /\ ~WithinSlot(t, w[1], w[2]) )
       => /\ req'[p] = Idle
          /\ sessions' = sessions
          /\ response'.op = "book" /\ response'.result = "unavailable"]_vars

----------------------------------------------------------------------------
(* C22: the conflict query for (a, b, window, excluded) returns exactly   *)
(* the stored sessions that involve a or b, as student or as tutor, are   *)
(* scheduled, confirmed or ongoing, overlap the window as half-open       *)
(* intervals and are not the excluded one; swapping a and b gives the     *)
(* same result.                                                           *)

C22_Expected(a, b, start, end, excludeSessionId) ==
  { i \in SessionIds :
      /\ Involves(sessions[i], a) \/ Involves(sessions[i], b)
      /\ Active(sessions[i])
      /\ Overlaps(sessions[i], start, end)
      /\ i # excludeSessionId }

C22_DetectorEitherRole ==
  \A a \in Series.students, b \in Series.tutors, w \in Series.windows,
     ex \in {NoId} \cup SessionIds :
    /\ checkSchedulingConflicts(a, b, w[1], w[2], ex)
         = C22_Expected(a, b, w[1], w[2], ex)
    /\ checkSchedulingConflicts(a, b, w[1], w[2], ex)
         = checkSchedulingConflicts(b, a, w[1], w[2], ex)

----------------------------------------------------------------------------
(* C23: Reschedule, Cancel and Start by a participant on a session that   *)
(* is neither scheduled nor confirmed, and End on a session that is not   *)
(* ongoing, are answered with an invalid-state error and change no field  *)
(* of any session; Cancel with an empty reason is answered with a         *)
(* validation error and changes nothing.                                  *)

\* process p answers at once with this result and nothing is written
C23_Refused(p, op, result) ==
  /\ req'[p] = Idle
  /\ response'.op = op /\ response'.result = result
  /\ sessions' = sessions

C23_Startable(sid) == sessions[sid].status \in {"scheduled", "confirmed"}

C23_StatusGuards ==
  [][\A p \in Procs, u \in Guarded.callers, sid \in SessionIds :
       /\ \A w \in Guarded.windows :
            ( /\ RescheduleRequest(p, u, sid, w[1], w[2])
              /\ IsParticipant(sessions[sid], u) /\ ~C23_Startable(sid) )
            => C23_Refused(p, "reschedule", "invalid-state")
       /\ \A reason \in Guarded.reasons :
            /\ ( /\ CancelRequest(p, u, sid, reason)
                 /\ reason # ""
                 /\ IsParticipant(sessions[sid], u) /\ ~C23_Startable(sid) )
               => C23_Refused(p, "cancel", "invalid-state")
            /\ CancelRequest(p, u, sid, reason) /\ reason = ""
               => C23_Refused(p, "cancel", "validation")
       /\ ( /\ StartRequest(p, u, sid)
            /\ IsParticipant(sessions[sid], u) /\ ~C23_Startable(sid) )
          => C23_Refused(p, "start", "invalid-state")
       /\ \A notes \in Guarded.notes :
            ( /\ EndRequest(p, u, sid, notes)
              /\ IsParticipant(sessions[sid], u)
              /\ sessions[sid].status # "ongoing" )
            => C23_Refused(p, "end", "not-ongoing")]_vars

\* a Start was refused on a session that had been completed
C23_Witness ==
  /\ response.op = "start" /\ response.result = "invalid-state"
  /\ \E i \in SessionIds :
       sessions[i].status = "completed" /\ sessions[i].actualEnd # NoTime

----------------------------------------------------------------------------
(* C24: the my-sessions listing of caller u returns exactly the stored    *)
(* sessions in which u is the student or the tutor (the student side or   *)
(* the tutor side only under a role filter), of the requested status      *)
(* under a status filter, and its total is the number of those sessions.  *)

C24_Matching(u, status, role) ==
  { i \in SessionIds :
      /\ \/ role # "tutor" /\ sessions[i].student = u
         \/ role # "student" /\ sessions[i].tutor = u
      /\ status = "" \/ sessions[i].status = status }

C24_Listed(answer) == { answer.listed[k] : k \in DOMAIN answer.listed }

----------------------------------------------------------------------------
(* C25: the student and the tutor of a stored session never change: no    *)
(* step of Reschedule, Cancel, Start, End or of the reminder sweep        *)
(* changes either participant id of any session.                          *)

C25_ParticipantsFixed ==
  [][\A i \in SessionIds :
       /\ i \in DOMAIN sessions'
       /\ sessions'[i].student = sessions[i].student
       /\ sessions'[i].tutor = sessions[i].tutor]_vars

\* a session that was reminded, moved to a later window, started and
\* ended by its tutor, with the participants it was booked with
C25_Witness ==
  \E i \in SessionIds :
    /\ sessions[i].status = "completed" /\ sessions[i].remindersSent
    /\ sessions[i].remindersSentAt < 2025 /\ sessions[i].actualStart >= 2025
    /\ sessions[i].scheduledStart = W3[1]
    /\ response.op = "end" /\ response.result = "ended"
    /\ sessions[i].student = "u1" /\ sessions[i].tutor = "u3"

----------------------------------------------------------------------------
(* C26: in every reachable state every stored session, whether created by *)
(* Book as a single session, a parent or a recurrence child, or moved by  *)
(* Reschedule, has scheduledStart < scheduledEnd.                         *)

C26_StartBeforeEnd ==
  \A i \in SessionIds : sessions[i].scheduledStart < sessions[i].scheduledEnd

----------------------------------------------------------------------------
(* C27: when a recurring Book answers, the first session it created is    *)
(* the parent: stored at the requested window, isRecurring, with no       *)
(* parentSession; every further session is a child that lasts as long as  *)
(* the parent and refers to it by parentSession; all of them are          *)
(* scheduled and have the same student, tutor and subject.                *)

C27_Length(s) == s.scheduledEnd - s.scheduledStart

C27_SeriesShape ==
  [][\A p \in Procs :
       BookRespond(p) /\ req[p].isRecurring
       => LET c == req[p].created
              parent == sessions[c[1]]
          IN /\ parent.isRecurring /\ parent.parentSession = NoId
             /\ parent.scheduledStart = req[p].start
             /\ parent.scheduledEnd = req[p].end
             /\ \A k \in 2..Len(c) :
                  /\ c[k] # c[1]
                  /\ sessions[c[k]].parentSession = c[1]
                  /\ sessions[c[k]].isRecurring
                  /\ C27_Length(sessions[c[k]]) = C27_Length(parent)
             /\ \A k \in 1..Len(c) :
                  /\ sessions[c[k]].status = "scheduled"
                  /\ sessions[c[k]].student = req[p].caller
                  /\ sessions[c[k]].tutor = req[p].tutor
                  /\ sessions[c[k]].subject = parent.subject]_vars

\* a monthly series of a parent and two children has been answered
C27_Witness ==
  /\ Len(sessions) = 3
  /\ response.op = "book" /\ response.result = "created"
  /\ sessions[1].frequency = "monthly" /\ sessions[1].parentSession = NoId
  /\ sessions[2].parentSession = 1 /\ sessions[3].parentSession = 1
  /\ C27_Length(sessions[3]) = MinutesPerHour

----------------------------------------------------------------------------
(* C28: the conflict check of Reschedule leaves out the session being     *)
(* moved: when no other active session of its student or of its tutor     *)
(* overlaps the new window the request goes on to write, even if the new  *)
(* window overlaps the old one; when another active session of either     *)
(* participant overlaps it, the answer is a scheduling conflict and the   *)
(* session keeps its window and status.                                   *)

\* the other active sessions of either participant that overlap the window
C28_Others(r) ==
  { i \in SessionIds \ {r.sid} :
      /\ Active(sessions[i])
      /\ Involves(sessions[i], r.doc.student)
           \/ Involves(sessions[i], r.doc.tutor)
      /\ Overlaps(sessions[i], r.start, r.end) }

C28_RescheduleExcludesSelf ==
  [][\A p \in Procs :
       RescheduleCheck(p)
       => IF C28_Others(req[p]) = {}
          THEN req'[p].op = "reschedule" /\ req'[p].pc = "save"
          ELSE /\ req'[p] = Idle
               /\ response'.op = "reschedule"
               /\ response'.result = "conflict"
               /\ sessions' = sessions]_vars

----------------------------------------------------------------------------
(* C29: a run of the reminder sweep selects exactly the sessions with     *)
(* now <= scheduledStart <= now + 24 h, status scheduled or confirmed and *)
(* the reminder flag false; for each of them, in turn, it sends a         *)
(* reminder and then sets the flag and the timestamp; no step of the run  *)
(* changes any other field or session, and no other step sets a flag.     *)

C29_Due ==
  { i \in SessionIds :
      /\ now <= sessions[i].scheduledStart
      /\ sessions[i].scheduledStart <= now + HoursPerDay * MinutesPerHour
      /\ sessions[i].status \in {"scheduled", "confirmed"}
      /\ ~sessions[i].remindersSent }

C29_Reminders(box, sid) == { m \in box : m.kind = "reminder" /\ m.sid = sid }

C29_SweepExact ==
  [][/\ SweepFind
          => /\ { sweep'.selected[k] : k \in DOMAIN sweep'.selected } = C29_Due
             /\ Len(sweep'.selected) = Cardinality(C29_Due)
             /\ sweep'.pc = IF C29_Due = {} THEN "idle" ELSE "send"
             /\ sessions' = sessions /\ outbox' = outbox
     /\ sweep.pc = "send" /\ sweep' # sweep
          => LET sid == sweep.selected[sweep.idx]
             IN /\ Cardinality(C29_Reminders(outbox', sid))
                     = Cardinality(C29_Reminders(outbox, sid)) + 1
                /\ Cardinality(outbox') = Cardinality(outbox) + 1
                /\ sweep' = [sweep EXCEPT !.pc = "save"]
                /\ sessions' = sessions
     /\ sweep.pc = "save" /\ sweep' # sweep
          => LET sid == sweep.selected[sweep.idx]
             IN /\ sessions' = [sessions EXCEPT ![sid].remindersSent = TRUE,
                                                ![sid].remindersSentAt = now]
                /\ outbox' = outbox
                /\ sweep' = IF sweep.idx < Len(sweep.selected)
                            THEN [sweep EXCEPT !.pc = "send", !.idx = @ + 1]
                            ELSE SweepIdle
     /\ \A i \in SessionIds :
          \/ /\ sessions'[i].remindersSent = sessions[i].remindersSent
             /\ sessions'[i].remindersSentAt = sessions[i].remindersSentAt
          \/ sweep.pc = "save" /\ sweep.selected[sweep.idx] = i
     /\ outbox' # outbox => sweep.pc = "send"]_vars

\* a run at the very start of W1 has reminded the session of W1 and then
\* the one of W3, and is over
C29_Witness ==
  /\ sweep = SweepIdle
  /\ \E i, j \in SessionIds :
       /\ sessions[i].scheduledStart = W1[1] /\ sessions[i].remindersSent
       /\ sessions[i].remindersSentAt = W1[1]
       /\ sessions[j].scheduledStart = W3[1] /\ sessions[j].remindersSentAt = W1[1]
       /\ Attempts("reminder", i) = 1 /\ Attempts("reminder", j) = 1

----------------------------------------------------------------------------
(* C30: also when a run of the reminder sweep selects its sessions before *)
(* the run in flight has stored its flags, the reminder helper is called  *)
(* at most once per session: no call is made for a session that has had   *)
(* one.                                                                   *)

C30_OnceUnderOverlap ==
  [][\A m \in outbox' \ outbox :
       m.kind = "reminder" => Attempts("reminder", m.sid) = 0]_vars

----------------------------------------------------------------------------
(* C31: the write of an End with notes puts the notes into the note field *)
(* of the caller (the student's when the caller is the student, the       *)
(* tutor's otherwise) and leaves the other party's note field and the     *)
(* admin note as they are stored; the write of an End without notes       *)
(* changes no note field.                                                 *)

C31_EndNotes ==
  [][\A p \in Procs :
       EndSave(p)
       => LET r == req[p]
              before == sessions[r.sid]
              after == sessions'[r.sid]
          IN /\ after.notesAdmin = before.notesAdmin
             /\ IF r.notes = ""
                THEN /\ after.notesStudent = before.notesStudent
                     /\ after.notesTutor = before.notesTutor
                ELSE IF before.student = r.caller
                THEN /\ after.notesStudent = r.notes
                     /\ after.notesTutor = before.notesTutor
                ELSE /\ after.notesTutor = r.notes
                     /\ after.notesStudent = before.notesStudent]_vars

\* the tutor has ended a session with notes: they are the tutor's notes and
\* the student has none
C31_Witness ==
  \E i \in SessionIds :
    /\ sessions[i].status = "completed"
    /\ sessions[i].notesTutor = "went well" /\ sessions[i].notesStudent = ""

----------------------------------------------------------------------------
(* C32: a stored session is changed only by the write of a Reschedule,    *)
(* Cancel, Start or End whose id it is: every other stored session stays  *)
(* as it is; the write of a Cancel of a parent leaves every child of the  *)
(* series as it is, and the write of a Cancel of a child leaves its       *)
(* parent as it is.                                                       *)

C32_OnlyTheSessionGiven ==
  [][/\ \A i \in SessionIds :
          sessions'[i] # sessions[i]
          => \E p \in Procs : Saves(p) /\ req[p].sid = i
     /\ \A p \in Procs :
          Saves(p) => \A i \in SessionIds \ {req[p].sid} :
                         sessions'[i] = sessions[i]
     /\ \A p \in Procs :
          Saves(p) /\ req[p].op = "cancel"
          => \A i \in SessionIds :
               \/ sessions[i].parentSession = req[p].sid
               \/ sessions[req[p].sid].parentSession = i
               => sessions'[i].status = sessions[i].status]_vars

\* the parent of a weekly series is cancelled and its child is scheduled
C32_Witness ==
  \E i, j \in SessionIds :
    /\ sessions[j].parentSession = i
    /\ sessions[i].status = "cancelled" /\ sessions[j].status = "scheduled"
    /\ response.op = "cancel" /\ response.result = "cancelled"

----------------------------------------------------------------------------
(* C33: with requests served one at a time, in the state a successful     *)
(* non-recurring Book, Cancel, Start or End leaves behind, the same       *)
(* request fails on its precondition, and a request that is refused       *)
(* writes nothing (a repeated Book inserts no second session); in the     *)
(* state a successful Reschedule leaves behind, the session has the       *)
(* requested window and status scheduled, which is all that a repetition  *)
(* would write.                                                           *)

C33_RetrySafe ==
  [][/\ (\A q \in Procs : Free(q) /\ req'[q] = Idle) => sessions' = sessions
     /\ \A p \in Procs : \A r \in {req[p]} :
          /\ BookRespond(p) /\ ~r.isRecurring
               => BookVerdict(r.caller, r.tutor, r.start, r.end)'
                    \in {"conflict", "not-future"}
          /\ CancelRespond(p)
               => CancelVerdict(r.sid, r.caller, r.reason)' = "invalid-state"
          /\ StartSave(p)
               => StartVerdict(r.sid, r.caller)' = "invalid-state"
          /\ EndRespond(p)
               => EndVerdict(r.sid, r.caller)' = "not-ongoing"
          /\ RescheduleRespond(p)
               => LET s == sessions'[r.sid]
                  IN /\ s.scheduledStart = r.start /\ s.scheduledEnd = r.end
                     /\ s.status = "scheduled"
                     /\ SaveModified(s, s, Rescheduled(s, r.start, r.end)) = s]_vars

\* a Start that has succeeded was asked for again and refused
C33_Witness ==
  /\ response.op = "start" /\ response.result = "invalid-state"
  /\ \E i \in SessionIds :
       sessions[i].status = "ongoing" /\ sessions[i].actualStart # NoTime

----------------------------------------------------------------------------
(* C34: when an online Book answers, every session it created (the single *)
(* session, or the parent and every child) has a meeting link stored;     *)
(* when an offline Book answers, none of the sessions it created has one. *)

C34_LinksOnlineOnly ==
  [][\A p \in Procs :
       BookRespond(p)
       => \A k \in 1..Len(req[p].created) :
            IF req[p].type = "online"
            THEN sessions[req[p].created[k]].meetingLink # NoId
            ELSE sessions[req[p].created[k]].meetingLink = NoId]_vars

----------------------------------------------------------------------------
\* C35: a recurring Book whose parent window conflicts, or lies outside the
\* tutor's slots, when the handler checks it is answered with the refusal
\* and inserts nothing; and a session is only ever inserted by a booking in
\* flight that passed those checks.
C35_ParentChecksFirst ==
  [][/\ \A p \in Procs, caller \in Parental.students,
          tutor \in Parental.tutors, w \in Parental.windows,
          rec \in Parental.recurrences :
          ( /\ BookRequest(p, Parental.cap, caller, tutor, w[1], w[2],
                           "offline", TRUE, rec.frequency, w[1] + rec.span)
            /\ \/ checkSchedulingConflicts(caller, tutor, w[1], w[2], NoId) # {}
               \/ ~checkTutorAvailability(tutor, w[1], w[2]) )
          => /\ sessions' = sessions
             /\ req'[p] = Idle
             /\ response'.result \in {"not-future", "conflict", "unavailable"}
     /\ Len(sessions') > Len(sessions)
          => \E q \in Procs : /\ req[q].op = "book"
                              /\ req[q].pc \in {"save", "recur"}
                              /\ Len(req'[q].created) = Len(req[q].created) + 1
    ]_vars

\* a series is stored, and a later recurring request was refused for the
\* conflict of its parent window: nothing more is stored
C35_Witness ==
  /\ \A p \in Procs : Free(p)
  /\ response.op = "book" /\ response.result = "conflict"
  /\ response.conflicts # {}
  /\ Len(sessions) = 2
  /\ sessions[2].parentSession = 1

----------------------------------------------------------------------------
\* C36: the counter of completed sessions of a user never exceeds the number
\* of completed sessions the user takes part in, and equals it whenever no
\* request is in flight.
C36_Completed(u) ==
  { i \in SessionIds : /\ sessions[i].status = "completed"
                       /\ u \in {sessions[i].student, sessions[i].tutor} }

C36_StatsOncePerSession ==
  \A u \in Users :
    /\ stats[u].completedSessions <= Cardinality(C36_Completed(u))
    /\ (\A p \in Procs : Free(p))
         => stats[u].completedSessions = Cardinality(C36_Completed(u))

----------------------------------------------------------------------------
\* C37: every turn of the generation loop of an accepted recurring request
\* moves the current date forward, so the distance to endDate shrinks and
\* the loop stops.
C37_LoopAdvances ==
  [][\A p \in Procs :
       (BookRecur(p) /\ req[p].currentDate < req[p].endDate)
         => req'[p].currentDate > req[p].currentDate]_vars

----------------------------------------------------------------------------
\* C38: a session created through Book is never stored, nor read by a
\* handler, with the status confirmed or no-show: its status is scheduled,
\* ongoing, completed or cancelled.
C38_Written == {"scheduled", "ongoing", "completed", "cancelled"}

C38_NeverConfirmed ==
  /\ \A i \in SessionIds : sessions[i].status \in C38_Written
  /\ \A p \in Procs :
       req[p].op \in {"reschedule", "cancel", "start", "end"}
         => req[p].doc.status \in C38_Written

\* every status an operation writes is stored: a completed session, and one
\* that was rescheduled to W3 and then cancelled
C38_Witness ==
  /\ Len(sessions) = 2
  /\ \E i, j \in SessionIds :
       /\ sessions[i].status = "completed"
       /\ sessions[j].status = "cancelled"
       /\ sessions[j].scheduledStart = W3[1]
       /\ sessions[i].scheduledStart = W1[1]

----------------------------------------------------------------------------
\* C39: at the moment the sweep sends a reminder for a session, the session
\* is stored as scheduled or confirmed, whatever request completed since the
\* sweep selected it; and the sweep's write of the reminder flag changes
\* nothing but the flag and its timestamp.
C39_ReminderStillDue ==
  [][/\ \A m \in outbox' \ outbox :
          m.kind = "reminder"
            => sessions[m.sid].status \in {"scheduled", "confirmed"}
     /\ SweepSave
          => \A i \in SessionIds :
               sessions'[i] = [sessions[i] EXCEPT
                                 !.remindersSent = sessions'[i].remindersSent,
                                 !.remindersSentAt = sessions'[i].remindersSentAt]
    ]_vars

----------------------------------------------------------------------------
\* C40: every stored session has a student different from its tutor.
C40_StudentIsNotTutor ==
  \A i \in SessionIds : sessions[i].student # sessions[i].tutor

====
